---- MODULE Spec2Model ----
(***************************************************************************)
(* A model of the NexiFit assistant: the streak engine of database.py      *)
(* (update_workout_streak over the workout_streaks table) and the session  *)
(* state machine of app.py (whatsapp_webhook and the process_and_reply     *)
(* background thread over the process-wide user_sessions dictionary).      *)
(*                                                                         *)
(* Calendar dates are day numbers; a DATE column holds the day number its  *)
(* ISO text denotes (sqlite3 stores date.isoformat(), date.fromisoformat   *)
(* reads it back).                                                         *)
(***************************************************************************)
EXTENDS Integers, Sequences, FiniteSets, TLC

VARIABLES
    today,            \* date.today(): the calendar day of the system clock
    workout_streaks,  \* the workout_streaks table: a set of rows
    lastCall,         \* history: the last completed update_workout_streak call
    calledDays,       \* history: per user, the days on which a call completed
    callers,          \* concurrent update_workout_streak calls, each with its position
    heap,             \* the session dictionaries ever created, by object identity
    user_sessions,    \* user_sessions: sender -> its session object (0: no key)
    handlers,         \* whatsapp_webhook requests in flight, each with its position
    threads,          \* process_and_reply threads ever started, each with its position
    inbound,          \* number of inbound messages received so far
    workout_logs,     \* the workout_logs table: a sequence of rows
    jobs,             \* the one-shot jobs added to the scheduler
    lastEnded,        \* history: how the last process_and_reply run to return ended
    mental_health_tips,    \* the mental_health_tips table: tip id -> its active flag
    user_tip_history,      \* the user_tip_history table: a set of rows
    user_tip_preferences,  \* the user_tip_preferences table: a set of rows
    lastTipOp,        \* history: the tip operation that has just returned
    parseIn,          \* the message and the clock reading given to parse_reminder_message
    parseOut,         \* what parse_reminder_message returned for them
    lastReply,        \* history: the response of the last webhook request to return
    scheduler,        \* the BackgroundScheduler: its clock, its state and its jobs
    chunking,         \* the text given to smart_chunk and the chunks it returned
    weekly,           \* the clock, the workout log and the answer of get_weekly_progress
    auth_logs,        \* the auth_logs table, in the order of its inserts
    goal_check,       \* the weekly_goal_check thread: its position and the pass it makes
    authorized_users, \* the authorized_users table: per user its row
    broadcast         \* the run of a broadcast job: its kind, the users left, the sends

streakVars == <<today, workout_streaks, lastCall, calledDays, callers>>

sessionVars == <<heap, user_sessions, handlers, threads, inbound, workout_logs, jobs,
                 lastEnded, lastReply>>

tipVars == <<mental_health_tips, user_tip_history, user_tip_preferences, lastTipOp>>

parseVars == <<parseIn, parseOut>>

gateVars == <<auth_logs, goal_check, authorized_users, broadcast>>

auxVars == <<scheduler, chunking, weekly, gateVars>>

vars == <<today, workout_streaks, lastCall, calledDays, callers,
          heap, user_sessions, handlers, threads, inbound, workout_logs, jobs,
          lastEnded, mental_health_tips, user_tip_history, user_tip_preferences,
          lastTipOp, parseIn, parseOut, lastReply, scheduler, chunking, weekly,
          auth_logs, goal_check, authorized_users, broadcast>>

(***************************************************************************)
(* Bounds                                                                  *)
(***************************************************************************)
MaxDay == 4

MaxInbound == 5

MaxHandlers == 2

Users == {"u1", "u2"}

Callers == {"c1", "c2"}

(***************************************************************************)
(* The workout_streaks table and update_workout_streak                     *)
(***************************************************************************)
NoRow == [none |-> TRUE]

NoDate == -1

NoCall == [none |-> TRUE]

NoRun == [none |-> TRUE]

NoTipOp == [none |-> TRUE]

NoParse == [none |-> TRUE]

NoResponse == [none |-> TRUE]

\* The ids of the tips setup_database.py seeds the tips table with.
TipIds == {1, 2}

\* A row of workout_streaks (the id column is not read by any query).
StreakRow(phone, cur, lng, last) ==
    [phone_number |-> phone, current_streak |-> cur,
     longest_streak |-> lng, last_workout_date |-> last]

\* SELECT ... FROM workout_streaks WHERE phone_number = ?
SelectStreak(table, phone) == {r \in table : r.phone_number = phone}

\* fetchone() that reports no row whatever the result holds.
FetchOne_AlwaysNone(rows) == NoRow

\* cursor.fetchone(): the first row of the result, None when there is none.
FetchOne(rows) == IF rows = {} THEN NoRow ELSE CHOOSE r \in rows : TRUE

\* INSERT INTO workout_streaks: phone_number is UNIQUE NOT NULL, so the
\* statement raises IntegrityError when the phone number has a row.
InsertViolatesUnique(table, phone) == SelectStreak(table, phone) # {}

InsertStreak(table, phone, cur, lng, last) ==
    table \cup {StreakRow(phone, cur, lng, last)}

\* An UPDATE that leaves the longest_streak column out of its SET list.
UpdateStreak_KeepLongest(table, phone, cur, lng, last) ==
    {r \in table : r.phone_number # phone}
        \cup {StreakRow(phone, cur, r.longest_streak, last) :
                  r \in SelectStreak(table, phone)}

\* UPDATE workout_streaks SET ... WHERE phone_number = ?
UpdateStreak(table, phone, cur, lng, last) ==
    {r \in table : r.phone_number # phone}
        \cup {StreakRow(phone, cur, lng, last) : r \in SelectStreak(table, phone)}

\* A same-day test that compares the stored ISO text with a date object.
SameDay_TextAgainstDate(last_date, day) == FALSE

\* The same-day test of update_workout_streak, with the parsed last date.
SameDay(last_date, day) == last_date = day

\* A consecutive-day test that is off by one day.
ConsecutiveDay_OffByOne(last_date, day) == last_date = day - 2

\* The consecutive-day test.
ConsecutiveDay(last_date, day) == last_date = day - 1

\* A gap test that is off by one day.
StreakBroken_OffByOne(last_date, day) == last_date # NoDate /\ last_date < day - 2

\* The gap test: "elif last_date and last_date < today - timedelta(days=1)".
StreakBroken(last_date, day) == last_date # NoDate /\ last_date < day - 1

\* A record test that also fires when the longest streak is only matched.
IsNewRecord_OrEqual(current_streak, longest_streak) == current_streak >= longest_streak

\* "is_new_record = current_streak > longest_streak"
IsNewRecord(current_streak, longest_streak) == current_streak > longest_streak

\* What update_workout_streak decides from the fetched row and today's date:
\* the statement it executes, the values it writes and the tuple it returns.
StreakDecision(result, day) ==
    IF result = NoRow
    THEN [stmt |-> "INSERT", current_streak |-> 1, longest_streak |-> 1,
          last_workout_date |-> day, ret |-> <<1, TRUE, FALSE>>]
    ELSE LET last_date == result.last_workout_date
         IN IF SameDay(last_date, day)
            THEN [stmt |-> "NONE",
                  current_streak |-> result.current_streak,
                  longest_streak |-> result.longest_streak,
                  last_workout_date |-> result.last_workout_date,
                  ret |-> <<result.current_streak, FALSE, FALSE>>]
            ELSE LET current_streak ==
                         IF ConsecutiveDay(last_date, day)
                         THEN result.current_streak + 1
                         ELSE 1
                     broke_streak ==
                         /\ ~ConsecutiveDay(last_date, day)
                         /\ StreakBroken(last_date, day)
                     is_new_record ==
                         IsNewRecord(current_streak, result.longest_streak)
                     longest_streak ==
                         IF is_new_record THEN current_streak
                         ELSE result.longest_streak
                 IN [stmt |-> "UPDATE",
                     current_streak |-> current_streak,
                     longest_streak |-> longest_streak,
                     last_workout_date |-> day,
                     ret |-> <<current_streak, is_new_record, broke_streak>>]

\* The statement of a decision raises (the connection then rolls back).
DecisionRaises(table, phone, d) ==
    d.stmt = "INSERT" /\ InsertViolatesUnique(table, phone)

\* The table after the statement of a decision has executed and committed.
ApplyDecision(table, phone, d) ==
    CASE DecisionRaises(table, phone, d) -> table
      [] d.stmt = "INSERT" ->
             InsertStreak(table, phone, d.current_streak, d.longest_streak,
                          d.last_workout_date)
      [] d.stmt = "UPDATE" ->
             UpdateStreak(table, phone, d.current_streak, d.longest_streak,
                          d.last_workout_date)
      [] OTHER -> table

IdleCaller == [pc |-> "idle", user |-> "u1", day |-> 0, result |-> NoRow]

IdleHandler == [pc |-> "idle", user |-> "u1", body |-> "No", session |-> 0]

\* smart_chunk has not been called.
NoChunking == [none |-> TRUE]

\* get_weekly_progress has not been called.
NoWeekly == [none |-> TRUE]

\* A job the module registers when it is loaded: it fires first at tick
\* first and then every period ticks (a tick is one day).
PeriodicJob_OneShot(kind, first, period) ==
    [kind |-> kind, trigger |-> "date", period |-> 0, run_at |-> first,
     pending |-> TRUE, fired |-> 0]

\* fired counts the firings of the job, up to two.
PeriodicJob(kind, first, period) ==
    [kind |-> kind, trigger |-> "periodic", period |-> period, run_at |-> first,
     pending |-> TRUE, fired |-> 0]

\* The scheduler after the module is loaded: started, with the expiry
\* cleanup (every day), the daily tips (every day) and the weekly reports
\* (every seventh day; the module was loaded on a Friday) registered.
StartedScheduler ==
    [now |-> 0, running |-> TRUE,
     jobs |-> <<PeriodicJob("clean_expired_users", 1, 1),
                PeriodicJob("daily_mental_health_tips", 1, 1),
                PeriodicJob("weekly_progress_reports", 2, 7)>>,
     last |-> [none |-> TRUE]]

\* The weekly_goal_check thread as it is started with the module: it has
\* made no pass yet (now: the reading of datetime.now() of its last pass).
StartedGoalCheck ==
    [pc |-> "waiting", now |-> -1, size |-> 0, todo |-> <<>>, last |-> [none |-> TRUE]]

\* No row of the authorized_users table for a user.
NoUserRow == [none |-> TRUE]

\* No broadcast job has run.
NoBroadcast == [kind |-> "none", todo |-> <<>>, last |-> [none |-> TRUE]]

(***************************************************************************)
(* The streak engine, one call at a time                                   *)
(***************************************************************************)
InitStreak ==
    /\ today = 0
    /\ workout_streaks = {}
    /\ lastCall = NoCall
    /\ calledDays = [u \in Users |-> {}]
    /\ callers = [c \in Callers |-> IdleCaller]
    /\ heap = <<>>
    /\ user_sessions = [u \in Users |-> 0]
    /\ handlers = [h \in 1..MaxHandlers |-> IdleHandler]
    /\ threads = <<>>
    /\ inbound = 0
    /\ workout_logs = <<>>
    /\ jobs = <<>>
    /\ lastEnded = NoRun
    /\ mental_health_tips = [t \in TipIds |-> TRUE]
    /\ user_tip_history = {}
    /\ user_tip_preferences = {}
    /\ lastTipOp = NoTipOp
    /\ parseIn = NoParse
    /\ parseOut = NoParse
    /\ lastReply = NoResponse
    /\ scheduler = StartedScheduler
    /\ chunking = NoChunking
    /\ weekly = NoWeekly
    /\ auth_logs = <<>>
    /\ goal_check = StartedGoalCheck
    /\ authorized_users = [u \in Users |-> NoUserRow]
    /\ broadcast = NoBroadcast

\* The system clock passes midnight.
AdvanceDay ==
    /\ today < MaxDay
    /\ today' = today + 1
    /\ UNCHANGED <<workout_streaks, lastCall, calledDays, callers>>
    /\ UNCHANGED sessionVars
    /\ UNCHANGED <<tipVars, parseVars, auxVars>>

\* update_workout_streak(phone_number), run to completion.
update_workout_streak(u) ==
    LET result == FetchOne(SelectStreak(workout_streaks, u))
        d == StreakDecision(result, today)
    IN /\ workout_streaks' = ApplyDecision(workout_streaks, u, d)
       /\ lastCall' = [user |-> u, day |-> today, pre |-> result, ret |-> d.ret,
                        raised |-> DecisionRaises(workout_streaks, u, d)]
       /\ calledDays' = [calledDays EXCEPT ![u] =
                              IF DecisionRaises(workout_streaks, u, d)
                              THEN @ ELSE @ \cup {today}]
       /\ UNCHANGED <<today, callers>>
       /\ UNCHANGED sessionVars
       /\ UNCHANGED <<tipVars, parseVars, auxVars>>

NextStreak ==
    \/ AdvanceDay
    \/ \E u \in Users : update_workout_streak(u)

SpecStreak == InitStreak /\ [][NextStreak]_vars

(***************************************************************************)
(* Properties of the streak engine                                         *)
(***************************************************************************)
\* The rows the table holds for the user of the last call.
RowsOfLast == SelectStreak(workout_streaks, lastCall.user)

LastCallUpdated ==
    /\ lastCall # NoCall
    /\ lastCall.pre # NoRow

MinOf(S) == CHOOSE x \in S : \A y \in S : x <= y

MaxOf(S) == CHOOSE x \in S : \A y \in S : x >= y

Contiguous(S) == S = MinOf(S)..MaxOf(S)

\* C5: a call for a user whose stored last_workout_date is today returns
\* (current_streak, FALSE, FALSE) with current_streak as stored, and leaves
\* the stored row as it was, however often it is repeated that day.
C5_SameDayIdempotent ==
    (LastCallUpdated /\ lastCall.pre.last_workout_date = lastCall.day)
        => /\ ~lastCall.raised
           /\ lastCall.ret = <<lastCall.pre.current_streak, FALSE, FALSE>>
           /\ RowsOfLast = {lastCall.pre}

\* A same-day call on a streak of at least two days has completed.
C5_Witness ==
    /\ LastCallUpdated
    /\ lastCall.pre.last_workout_date = lastCall.day
    /\ lastCall.pre.current_streak >= 2

\* C6: a call for a user whose stored last_workout_date is at least two
\* days before today stores current_streak = 1 and last_workout_date =
\* today and returns broke_streak = TRUE, whatever the streak was.
C6_GapResets ==
    (LastCallUpdated /\ lastCall.pre.last_workout_date <= lastCall.day - 2)
        => /\ ~lastCall.raised
           /\ lastCall.ret[1] = 1
           /\ lastCall.ret[3] = TRUE
           /\ \A r \in RowsOfLast :
                 r.current_streak = 1 /\ r.last_workout_date = lastCall.day
           /\ RowsOfLast # {}

\* A streak of at least two days was reset after a gap.
C6_Witness ==
    /\ LastCallUpdated
    /\ lastCall.pre.last_workout_date <= lastCall.day - 2
    /\ lastCall.pre.current_streak >= 2

\* C7: a call for a user whose stored last_workout_date is yesterday
\* stores current_streak + 1 and last_workout_date = today and returns
\* broke_streak = FALSE; calls on k consecutive days from no row give k.
C7_ConsecutiveIncrements ==
    /\ (LastCallUpdated /\ lastCall.pre.last_workout_date = lastCall.day - 1)
          => /\ ~lastCall.raised
             /\ lastCall.ret[1] = lastCall.pre.current_streak + 1
             /\ lastCall.ret[3] = FALSE
             /\ RowsOfLast # {}
             /\ \A r \in RowsOfLast :
                   /\ r.current_streak = lastCall.pre.current_streak + 1
                   /\ r.last_workout_date = lastCall.day
    /\ \A u \in Users :
          (calledDays[u] # {} /\ Contiguous(calledDays[u]))
              => /\ SelectStreak(workout_streaks, u) # {}
                 /\ \A r \in SelectStreak(workout_streaks, u) :
                       r.current_streak = Cardinality(calledDays[u])

\* A third consecutive day has just been logged.
C7_Witness ==
    /\ LastCallUpdated
    /\ lastCall.pre.last_workout_date = lastCall.day - 1
    /\ Contiguous(calledDays[lastCall.user])
    /\ Cardinality(calledDays[lastCall.user]) >= 3

\* C8: a call for a user without a row creates the row (1, 1, today) and
\* returns (1, TRUE, FALSE); a user who has logged a workout keeps a row,
\* and no user ever has more than one.
C8_FirstWorkoutCreatesOneRow ==
    /\ (lastCall # NoCall /\ lastCall.pre = NoRow)
          => /\ ~lastCall.raised
             /\ lastCall.ret = <<1, TRUE, FALSE>>
             /\ RowsOfLast =
                    {StreakRow(lastCall.user, 1, 1, lastCall.day)}
    /\ \A u \in Users :
          /\ Cardinality(SelectStreak(workout_streaks, u)) <= 1
          /\ calledDays[u] # {} => SelectStreak(workout_streaks, u) # {}

\* The first workout of a user was logged after another user's row existed,
\* and the first user has been updated since.
C8_Witness ==
    /\ lastCall # NoCall
    /\ lastCall.pre = NoRow
    /\ \E u \in Users \ {lastCall.user} : Cardinality(calledDays[u]) >= 2

\* C9: a call that updates an existing row returns is_new_record = TRUE
\* exactly when the new current_streak exceeds the longest_streak stored
\* before; the stored longest_streak then becomes the new current_streak
\* and is otherwise left as it was.
C9_NewRecord ==
    (LastCallUpdated /\ lastCall.pre.last_workout_date # lastCall.day)
        => /\ ~lastCall.raised
           /\ lastCall.ret[2] = (lastCall.ret[1] > lastCall.pre.longest_streak)
           /\ RowsOfLast # {}
           /\ \A r \in RowsOfLast :
                 /\ r.current_streak = lastCall.ret[1]
                 /\ r.longest_streak =
                        IF lastCall.ret[1] > lastCall.pre.longest_streak
                        THEN lastCall.ret[1]
                        ELSE lastCall.pre.longest_streak

\* An update after a gap left a longer longest_streak in place.
C9_Witness ==
    /\ LastCallUpdated
    /\ lastCall.pre.last_workout_date # lastCall.day
    /\ lastCall.ret[2] = FALSE
    /\ \E r \in RowsOfLast : r.longest_streak >= 2 /\ r.current_streak = 1

(***************************************************************************)
(* The streak engine with concurrent calls: each call opens its own        *)
(* connection; its SELECT runs outside a transaction, and its INSERT or    *)
(* UPDATE commits when the connection context exits.                       *)
(***************************************************************************)
\* "today = date.today()" of a new call.
CallBegin(c, u) ==
    /\ callers[c].pc = "idle"
    /\ callers' = [callers EXCEPT ![c] =
                       [pc |-> "today", user |-> u, day |-> today, result |-> NoRow]]
    /\ UNCHANGED <<today, workout_streaks, lastCall, calledDays>>
    /\ UNCHANGED sessionVars
    /\ UNCHANGED <<tipVars, parseVars, auxVars>>

\* The SELECT and fetchone() of the call.
CallSelect(c) ==
    /\ callers[c].pc = "today"
    /\ callers' = [callers EXCEPT
                       ![c].pc = "fetched",
                       ![c].result = FetchOne(SelectStreak(workout_streaks,
                                                         callers[c].user))]
    /\ UNCHANGED <<today, workout_streaks, lastCall, calledDays>>
    /\ UNCHANGED sessionVars
    /\ UNCHANGED <<tipVars, parseVars, auxVars>>

\* The rest of the call: the branch taken on the fetched row, the INSERT or
\* UPDATE, and the commit (or the rollback when the statement raises).
CallFinish(c) ==
    /\ callers[c].pc = "fetched"
    /\ LET d == StreakDecision(callers[c].result, callers[c].day)
       IN workout_streaks' = ApplyDecision(workout_streaks, callers[c].user, d)
    /\ callers' = [callers EXCEPT ![c] = IdleCaller]
    /\ UNCHANGED <<today, lastCall, calledDays>>
    /\ UNCHANGED sessionVars
    /\ UNCHANGED <<tipVars, parseVars, auxVars>>

NextStreakConc ==
    \/ AdvanceDay
    \/ \E c \in Callers, u \in Users : CallBegin(c, u)
    \/ \E c \in Callers : CallSelect(c)
    \/ \E c \in Callers : CallFinish(c)

SpecStreakConc == InitStreak /\ [][NextStreakConc]_vars

\* C10: whatever the calls, their dates and their interleaving, every
\* stored row has longest_streak >= current_streak >= 1.
C10_LongestBoundsCurrent ==
    \A r \in workout_streaks :
        r.longest_streak >= r.current_streak /\ r.current_streak >= 1

\* Two calls for one user have fetched the same row on different days, and
\* the row holds a current streak below its longest.
C10_Witness ==
    /\ callers["c1"].pc = "fetched"
    /\ callers["c2"].pc = "fetched"
    /\ callers["c1"].user = callers["c2"].user
    /\ callers["c1"].day # callers["c2"].day
    /\ callers["c1"].result # NoRow
    /\ \E r \in SelectStreak(workout_streaks, callers["c1"].user) :
           r.longest_streak > r.current_streak

(***************************************************************************)
(* Sessions: the user_sessions dictionary and the dictionaries it holds.   *)
(* A handler or thread that has read user_sessions[sender] keeps a         *)
(* reference to that dictionary object, so objects have identities: heap   *)
(* holds every dictionary created, user_sessions[u] the index of the one   *)
(* stored under the key u.                                                 *)
(***************************************************************************)
\* The inbound message bodies of the model (request.form Body, stripped).
Bodies == {"No", "70kg, 175cm, Muscle Gain", "weekly plan"}

\* The senders of the inbound messages.
Senders == {"u1"}

\* Python's None, as a value distinct from every string a field can hold.
PyNone == "(None)"

NoStreak == [none |-> TRUE]

NoReply == [none |-> TRUE]

NoView == [none |-> TRUE]

\* str.lower() of a body.
Lower(body) ==
    CASE body = "No" -> "no"
      [] body = "70kg, 175cm, Muscle Gain" -> "70kg, 175cm, muscle gain"
      [] body = "Stop Tips" -> "stop tips"
      [] body = "Remind me to call coach at 9:30" -> "remind me to call coach at 9:30"
      [] body = "Muscle Gain" -> "muscle gain"
      [] OTHER -> body

\* [p.strip() for p in incoming_msg.split(",")]
SplitComma(body) ==
    CASE body = "70kg, 175cm, Muscle Gain" -> <<"70kg", "175cm", "Muscle Gain">>
      [] OTHER -> <<body>>

\* The words and phrases the handlers test with "in" that occur in a
\* lower-cased body.
WordsIn(lowered) ==
    CASE lowered = "70kg, 175cm, muscle gain" -> {"muscle"}
      [] lowered = "weekly plan" -> {"plan", "weekly", "weekly plan"}
      [] lowered = "remind me to stretch in 5 minutes" -> {"minute", "remind", "stretch"}
      [] lowered = "remind me weekly plan" -> {"plan", "remind", "weekly", "weekly plan"}
      [] lowered = "remind me to run at 25:00" -> {"remind", "run"}
      [] lowered = "weekly plan today" -> {"plan", "today", "weekly", "weekly plan"}
      [] lowered = "today" -> {"today"}
      [] lowered = "workout routine" -> {"routine", "workout"}
      [] lowered = "remind me to call coach at 9:30" -> {"remind"}
      [] lowered = "remind me to call at 9:30 in 2 hours" -> {"hour", "remind"}
      [] lowered = "remind me to run in 90 seconds" -> {"remind", "run"}
      [] lowered = "remind me to run at 9:75" -> {"remind", "run"}
      [] lowered = "remind me to drink water at 0:00" -> {"drink", "remind", "water"}
      [] lowered = "remind me to walk in 5 minutes in 1 hour" -> {"hour", "minute", "remind", "walk"}
      [] lowered = "muscle gain" -> {"muscle"}
      [] OTHER -> {}

\* The question words a lower-cased body starts with or contains between
\* spaces.
QuestionWordsIn(lowered) ==
    CASE lowered = "how are you" -> {"are", "how"}
      [] lowered = "why is the sky so blue and green" -> {"is", "why"}
      [] OTHER -> {}

\* len(message.split())
WordCount(body) ==
    CASE body = "" -> 0
      [] body = "70kg, 175cm, Muscle Gain" -> 4
      [] body = "weekly plan" -> 2
      [] body = "Stop Tips" -> 2
      [] body = "start tips" -> 2
      [] body = "remind me to stretch in 5 minutes" -> 7
      [] body = "remind me weekly plan" -> 4
      [] body = "remind me to run at 25:00" -> 6
      [] body = "weekly plan today" -> 3
      [] body = "workout routine" -> 2
      [] body = "how are you" -> 3
      [] body = "Remind me to call coach at 9:30" -> 7
      [] body = "remind me to call at 9:30 in 2 hours" -> 9
      [] body = "remind me to run in 90 seconds" -> 7
      [] body = "remind me to run at 9:75" -> 6
      [] body = "remind me to drink water at 0:00" -> 7
      [] body = "remind me to walk in 5 minutes in 1 hour" -> 10
      [] body = "hello there" -> 2
      [] body = "why is the sky so blue and green" -> 8
      [] OTHER -> 1

\* message.split(): the words of a lower-cased, stripped message.
Tokens(lowered) ==
    CASE lowered = "" -> <<>>
      [] lowered = "70kg, 175cm, muscle gain" -> <<"70kg,", "175cm,", "muscle", "gain">>
      [] lowered = "weekly plan" -> <<"weekly", "plan">>
      [] lowered = "stop tips" -> <<"stop", "tips">>
      [] lowered = "start tips" -> <<"start", "tips">>
      [] lowered = "remind me to stretch in 5 minutes" -> <<"remind", "me", "to", "stretch", "in", "5", "minutes">>
      [] lowered = "remind me weekly plan" -> <<"remind", "me", "weekly", "plan">>
      [] lowered = "remind me to run at 25:00" -> <<"remind", "me", "to", "run", "at", "25:00">>
      [] lowered = "weekly plan today" -> <<"weekly", "plan", "today">>
      [] lowered = "workout routine" -> <<"workout", "routine">>
      [] lowered = "how are you" -> <<"how", "are", "you">>
      [] lowered = "remind me to call coach at 9:30" -> <<"remind", "me", "to", "call", "coach", "at", "9:30">>
      [] lowered = "remind me to call at 9:30 in 2 hours" -> <<"remind", "me", "to", "call", "at", "9:30", "in", "2", "hours">>
      [] lowered = "remind me to run in 90 seconds" -> <<"remind", "me", "to", "run", "in", "90", "seconds">>
      [] lowered = "remind me to run at 9:75" -> <<"remind", "me", "to", "run", "at", "9:75">>
      [] lowered = "remind me to drink water at 0:00" -> <<"remind", "me", "to", "drink", "water", "at", "0:00">>
      [] lowered = "remind me to walk in 5 minutes in 1 hour" -> <<"remind", "me", "to", "walk", "in", "5", "minutes", "in", "1", "hour">>
      [] lowered = "muscle gain" -> <<"muscle", "gain">>
      [] OTHER -> <<lowered>>

\* parts[i] if len(parts) > i else the default (i counted from 0 in Python).
\* A field read that stores none for every missing field.
PartOr_NoneForMissing(parts, i, default) == IF Len(parts) >= i THEN parts[i] ELSE PyNone

PartOr(parts, i, default) == IF Len(parts) >= i THEN parts[i] ELSE default

FitnessKeywords ==
    {"workout", "diet", "gym", "exercise", "yoga", "health", "fitness",
     "calories", "nutrition", "training", "protein", "cardio", "strength",
     "weight", "muscle", "fat", "run", "walk", "jog", "swim", "cycle",
     "stretch", "warm", "cool", "rest", "recovery", "sleep", "meal",
     "food", "eat", "drink", "water", "supplement", "vitamin", "carb",
     "plan", "routine", "schedule", "goal", "body", "abs", "leg", "arm",
     "chest", "back", "shoulder", "core", "squat", "push", "pull", "lift",
     "rep", "set", "intensity", "duration", "time", "minute", "hour",
     "injury", "pain", "sore", "tired", "energy", "motivation", "progress"}

is_fitness_related(message) ==
    LET has_fitness_keyword == WordsIn(Lower(message)) \cap FitnessKeywords # {}
        is_question == QuestionWordsIn(Lower(message)) # {}
        is_short_followup == WordCount(message) <= 5
    IN has_fitness_keyword \/ (is_question /\ is_short_followup)

\* The tests of the conversation block with the weekly plan asked before
\* the reminder.
Classify_WeeklyBeforeRemind(body) ==
    LET msg_lower == Lower(body)
    IN IF msg_lower \in {"streak", "my streak", "check streak", "show streak",
                         "streak stats"} THEN "streak"
       ELSE IF msg_lower \in {"stop tips", "no tips", "disable tips",
                              "unsubscribe tips"} THEN "tips_off"
       ELSE IF msg_lower \in {"start tips", "enable tips", "resume tips",
                              "subscribe tips"} THEN "tips_on"
       ELSE IF WordsIn(msg_lower) \cap {"weekly plan", "week plan", "7 day",
                                        "weekly workout"} # {} THEN "weekly"
       ELSE IF "remind" \in WordsIn(msg_lower) THEN "remind"
       ELSE IF WordsIn(msg_lower) \cap {"today", "today's plan", "plan for today",
                                        "workout today"} # {} THEN "today"
       ELSE IF ~is_fitness_related(body) THEN "offtopic"
       ELSE "freeform"

\* The branch of the conversation block a body takes, in the order of the
\* handler's tests.
Classify(body) ==
    LET msg_lower == Lower(body)
    IN IF msg_lower \in {"streak", "my streak", "check streak", "show streak",
                         "streak stats"} THEN "streak"
       ELSE IF msg_lower \in {"stop tips", "no tips", "disable tips",
                              "unsubscribe tips"} THEN "tips_off"
       ELSE IF msg_lower \in {"start tips", "enable tips", "resume tips",
                              "subscribe tips"} THEN "tips_on"
       ELSE IF "remind" \in WordsIn(msg_lower) THEN "remind"
       ELSE IF WordsIn(msg_lower) \cap {"weekly plan", "week plan", "7 day",
                                        "weekly workout"} # {} THEN "weekly"
       ELSE IF WordsIn(msg_lower) \cap {"today", "today's plan", "plan for today",
                                        "workout today"} # {} THEN "today"
       ELSE IF ~is_fitness_related(body) THEN "offtopic"
       ELSE "freeform"

\* "is_plan_request = any(word in msg_lower for word in [...])"
IsPlanRequest(body) ==
    WordsIn(Lower(body)) \cap {"plan", "workout", "today", "weekly", "routine"} # {}

\* A new session that has already taken the first body as the details.
NewSession_DetailsTaken ==
    [messages |-> <<>>, onboarding_step |-> "restrictions",
     name |-> PyNone, age |-> PyNone, gender |-> PyNone,
     weight |-> PyNone, height |-> PyNone, fitness_goal |-> PyNone,
     injury |-> PyNone, reminders |-> <<>>, last_goal_check |-> today,
     user_restrictions |-> PyNone, latest_streak |-> NoStreak]

\* The dictionary a new session starts as (it has no latest_streak key).
NewSession ==
    [messages |-> <<>>, onboarding_step |-> "basic",
     name |-> PyNone, age |-> PyNone, gender |-> PyNone,
     weight |-> PyNone, height |-> PyNone, fitness_goal |-> PyNone,
     injury |-> PyNone, reminders |-> <<>>, last_goal_check |-> today,
     user_restrictions |-> PyNone, latest_streak |-> NoStreak]

HumanMessage(content) == [role |-> "human", content |-> content]

AIMessage(content) == [role |-> "ai", content |-> content]

PlanRequest == HumanMessage("Suggest a personalized starting plan for me.")

WeeklyPlanRequest(goal) ==
    [role |-> "human", content |-> "Create a complete weekly workout plan",
     goal |-> goal]

\* The part of a session the orchestrator must preserve on failure.
SessionView(s) ==
    [name |-> s.name, age |-> s.age, gender |-> s.gender, weight |-> s.weight,
     height |-> s.height, fitness_goal |-> s.fitness_goal, injury |-> s.injury,
     user_restrictions |-> s.user_restrictions, messages |-> s.messages,
     latest_streak |-> s.latest_streak]

\* threading.Thread(target=process_and_reply, args=(sender, initial, msg))
NewThread(u, initial, incoming) ==
    [pc |-> "spawned", user |-> u, is_initial_plan |-> initial,
     incoming_msg |-> incoming, session |-> 0, start |-> NoView,
     reply |-> NoReply, sent |-> 0]

\* The MessagingResponse a request returns, by the text it carries.
Response(u, kind) == [to |-> u, kind |-> kind]

\* The lowest free request slot.
FreeSlot(h) ==
    /\ handlers[h].pc = "idle"
    /\ \A g \in 1..(h - 1) : handlers[g].pc # "idle"

(***************************************************************************)
(* whatsapp_webhook, for an authorized sender and a body that is not an    *)
(* ADMIN command                                                           *)
(***************************************************************************)
\* A request arrives and a server thread starts handling it.
Receive(h, u, body) ==
    /\ inbound < MaxInbound
    /\ FreeSlot(h)
    /\ handlers' = [handlers EXCEPT ![h] =
                        [pc |-> "lookup", user |-> u, body |-> body, session |-> 0]]
    /\ inbound' = inbound + 1
    /\ UNCHANGED <<heap, user_sessions, threads, workout_logs, jobs, lastEnded>>
    /\ UNCHANGED streakVars
    /\ UNCHANGED lastReply
    /\ UNCHANGED <<tipVars, parseVars, auxVars>>

\* "if sender not in user_sessions", and "session = user_sessions[sender]"
\* when the key is there.
Lookup(h) ==
    /\ handlers[h].pc = "lookup"
    /\ handlers' = [handlers EXCEPT ![h] =
           IF user_sessions[handlers[h].user] = 0
           THEN [handlers[h] EXCEPT !.pc = "create"]
           ELSE [handlers[h] EXCEPT !.pc = "is_basic",
                                    !.session = user_sessions[handlers[h].user]]]
    /\ UNCHANGED <<heap, user_sessions, threads, inbound, workout_logs, jobs, lastEnded>>
    /\ UNCHANGED streakVars
    /\ UNCHANGED lastReply
    /\ UNCHANGED <<tipVars, parseVars, auxVars>>

\* A creation that takes the first message as the name.
CreateSession_TakesName(h) ==
    /\ handlers[h].pc = "create"
    /\ heap' = Append(heap, [NewSession EXCEPT !.name = handlers[h].body])
    /\ user_sessions' = [user_sessions EXCEPT ![handlers[h].user] = Len(heap) + 1]
    /\ handlers' = [handlers EXCEPT ![h] = IdleHandler]
    /\ UNCHANGED <<threads, inbound, workout_logs, jobs, lastEnded>>
    /\ UNCHANGED streakVars
    /\ lastReply' = Response(handlers[h].user, "greeting")
    /\ UNCHANGED <<tipVars, parseVars, auxVars>>

\* "user_sessions[sender] = {...}" and the greeting.
CreateSession(h) ==
    /\ handlers[h].pc = "create"
    /\ heap' = Append(heap, NewSession)
    /\ user_sessions' = [user_sessions EXCEPT ![handlers[h].user] = Len(heap) + 1]
    /\ handlers' = [handlers EXCEPT ![h] = IdleHandler]
    /\ UNCHANGED <<threads, inbound, workout_logs, jobs, lastEnded>>
    /\ UNCHANGED streakVars
    /\ lastReply' = Response(handlers[h].user, "greeting")
    /\ UNCHANGED <<tipVars, parseVars, auxVars>>

\* The four tests of session["onboarding_step"], each a read of its own.
StepTest(h) ==
    /\ handlers[h].pc \in {"is_basic", "is_restrictions", "is_personalize", "is_done"}
    /\ LET step == heap[handlers[h].session].onboarding_step
           next ==
               CASE handlers[h].pc = "is_basic" ->
                        IF step = "basic" THEN "basic" ELSE "is_restrictions"
                 [] handlers[h].pc = "is_restrictions" ->
                        IF step = "restrictions" THEN "restrictions"
                        ELSE "is_personalize"
                 [] handlers[h].pc = "is_personalize" ->
                        IF step = "personalize" THEN "personalize" ELSE "is_done"
                 [] OTHER ->
                        IF step = "done" THEN Classify(handlers[h].body)
                        ELSE "fallback"
       IN handlers' = [handlers EXCEPT ![h].pc = next]
    /\ UNCHANGED <<heap, user_sessions, threads, inbound, workout_logs, jobs, lastEnded>>
    /\ UNCHANGED streakVars
    /\ UNCHANGED lastReply
    /\ UNCHANGED <<tipVars, parseVars, auxVars>>

\* A "basic" block that asks again when the body is empty.
HandleBasic_AsksAgainOnEmpty(h) ==
    /\ handlers[h].pc = "basic"
    /\ LET parts == SplitComma(handlers[h].body)
       IN heap' = [heap EXCEPT ![handlers[h].session] =
                       [@ EXCEPT !.name = PartOr(parts, 1, PyNone),
                                 !.age = PartOr(parts, 2, PyNone),
                                 !.gender = PartOr(parts, 3, PyNone),
                                 !.onboarding_step =
                                     IF handlers[h].body = "" THEN "basic"
                                     ELSE "restrictions"]]
    /\ handlers' = [handlers EXCEPT ![h] = IdleHandler]
    /\ UNCHANGED <<user_sessions, threads, inbound, workout_logs, jobs, lastEnded>>
    /\ UNCHANGED streakVars
    /\ lastReply' = Response(handlers[h].user, "ask_restrictions")
    /\ UNCHANGED <<tipVars, parseVars, auxVars>>

\* The "basic" block.
HandleBasic(h) ==
    /\ handlers[h].pc = "basic"
    /\ LET parts == SplitComma(handlers[h].body)
       IN heap' = [heap EXCEPT ![handlers[h].session] =
                       [@ EXCEPT !.name = PartOr(parts, 1, PyNone),
                                 !.age = PartOr(parts, 2, PyNone),
                                 !.gender = PartOr(parts, 3, PyNone),
                                 !.onboarding_step = "restrictions"]]
    /\ handlers' = [handlers EXCEPT ![h] = IdleHandler]
    /\ UNCHANGED <<user_sessions, threads, inbound, workout_logs, jobs, lastEnded>>
    /\ UNCHANGED streakVars
    /\ lastReply' = Response(handlers[h].user, "ask_restrictions")
    /\ UNCHANGED <<tipVars, parseVars, auxVars>>

\* The "restrictions" block.
HandleRestrictions(h) ==
    /\ handlers[h].pc = "restrictions"
    /\ heap' = [heap EXCEPT ![handlers[h].session] =
                    [@ EXCEPT !.user_restrictions = handlers[h].body,
                              !.onboarding_step = "personalize"]]
    /\ handlers' = [handlers EXCEPT ![h] = IdleHandler]
    /\ UNCHANGED <<user_sessions, threads, inbound, workout_logs, jobs, lastEnded>>
    /\ UNCHANGED streakVars
    /\ lastReply' = Response(handlers[h].user, "ask_personalize")
    /\ UNCHANGED <<tipVars, parseVars, auxVars>>

\* The "personalize" block starting the generation twice.
HandlePersonalize_TwoGenerations(h) ==
    /\ handlers[h].pc = "personalize"
    /\ LET parts == SplitComma(handlers[h].body)
           s == heap[handlers[h].session]
           detailed ==
               IF Lower(handlers[h].body) = "no" THEN s
               ELSE [s EXCEPT !.weight = PartOr(parts, 1, PyNone),
                              !.height = PartOr(parts, 2, PyNone),
                              !.fitness_goal = PartOr(parts, 3, PyNone),
                              !.injury = PartOr(parts, 4, "None")]
       IN heap' = [heap EXCEPT ![handlers[h].session] =
                       [detailed EXCEPT !.onboarding_step = "done",
                                        !.messages = Append(@, PlanRequest)]]
    /\ threads' = threads \o <<NewThread(handlers[h].user, TRUE, ""),
                              NewThread(handlers[h].user, TRUE, "")>>
    /\ handlers' = [handlers EXCEPT ![h] = IdleHandler]
    /\ UNCHANGED <<user_sessions, inbound, workout_logs, jobs, lastEnded>>
    /\ UNCHANGED streakVars
    /\ lastReply' = Response(handlers[h].user, "preparing_plan")
    /\ UNCHANGED <<tipVars, parseVars, auxVars>>

\* The "personalize" block: "no" skips the details; both ways the session
\* becomes done, the plan request is appended and the thread is started.
HandlePersonalize(h) ==
    /\ handlers[h].pc = "personalize"
    /\ LET parts == SplitComma(handlers[h].body)
           s == heap[handlers[h].session]
           detailed ==
               IF Lower(handlers[h].body) = "no" THEN s
               ELSE [s EXCEPT !.weight = PartOr(parts, 1, PyNone),
                              !.height = PartOr(parts, 2, PyNone),
                              !.fitness_goal = PartOr(parts, 3, PyNone),
                              !.injury = PartOr(parts, 4, "None")]
       IN heap' = [heap EXCEPT ![handlers[h].session] =
                       [detailed EXCEPT !.onboarding_step = "done",
                                        !.messages = Append(@, PlanRequest)]]
    /\ threads' = Append(threads,
                         NewThread(handlers[h].user, TRUE, ""))
    /\ handlers' = [handlers EXCEPT ![h] = IdleHandler]
    /\ UNCHANGED <<user_sessions, inbound, workout_logs, jobs, lastEnded>>
    /\ UNCHANGED streakVars
    /\ lastReply' = Response(handlers[h].user, "preparing_plan")
    /\ UNCHANGED <<tipVars, parseVars, auxVars>>

\* A weekly-plan branch that replies only once the generations started
\* before have returned.
HandleWeeklyPlan_WaitsForGenerations(h) ==
    /\ handlers[h].pc = "weekly"
    /\ threads = <<>>
    /\ heap' = [heap EXCEPT ![handlers[h].session].messages =
                    Append(@, WeeklyPlanRequest(heap[handlers[h].session].fitness_goal))]
    /\ threads' = Append(threads,
                         NewThread(handlers[h].user, TRUE, ""))
    /\ handlers' = [handlers EXCEPT ![h] = IdleHandler]
    /\ UNCHANGED <<user_sessions, inbound, workout_logs, jobs, lastEnded>>
    /\ UNCHANGED streakVars
    /\ lastReply' = Response(handlers[h].user, "creating_weekly_plan")
    /\ UNCHANGED <<tipVars, parseVars, auxVars>>

\* The weekly-plan branch of the conversation block.
HandleWeeklyPlan(h) ==
    /\ handlers[h].pc = "weekly"
    /\ heap' = [heap EXCEPT ![handlers[h].session].messages =
                    Append(@, WeeklyPlanRequest(heap[handlers[h].session].fitness_goal))]
    /\ threads' = Append(threads,
                         NewThread(handlers[h].user, TRUE, ""))
    /\ handlers' = [handlers EXCEPT ![h] = IdleHandler]
    /\ UNCHANGED <<user_sessions, inbound, workout_logs, jobs, lastEnded>>
    /\ UNCHANGED streakVars
    /\ lastReply' = Response(handlers[h].user, "creating_weekly_plan")
    /\ UNCHANGED <<tipVars, parseVars, auxVars>>

\* The out-of-domain notice.
HandleOffTopic(h) ==
    /\ handlers[h].pc = "offtopic"
    /\ handlers' = [handlers EXCEPT ![h] = IdleHandler]
    /\ UNCHANGED <<heap, user_sessions, threads, inbound, workout_logs, jobs, lastEnded>>
    /\ UNCHANGED streakVars
    /\ lastReply' = Response(handlers[h].user, "off_topic")
    /\ UNCHANGED <<tipVars, parseVars, auxVars>>

\* The regular conversation at the end of the block.
HandleFreeForm(h) ==
    /\ handlers[h].pc = "freeform"
    /\ heap' = [heap EXCEPT ![handlers[h].session].messages =
                    Append(@, HumanMessage(handlers[h].body))]
    /\ threads' = Append(threads,
                         NewThread(handlers[h].user, IsPlanRequest(handlers[h].body),
                                   handlers[h].body))
    /\ handlers' = [handlers EXCEPT ![h] = IdleHandler]
    /\ UNCHANGED <<user_sessions, inbound, workout_logs, jobs, lastEnded>>
    /\ UNCHANGED streakVars
    /\ lastReply' = Response(handlers[h].user, "got_it")
    /\ UNCHANGED <<tipVars, parseVars, auxVars>>

\* The fallback reply when no test of the step matched.
HandleFallback(h) ==
    /\ handlers[h].pc = "fallback"
    /\ handlers' = [handlers EXCEPT ![h] = IdleHandler]
    /\ UNCHANGED <<heap, user_sessions, threads, inbound, workout_logs, jobs, lastEnded>>
    /\ UNCHANGED streakVars
    /\ lastReply' = Response(handlers[h].user, "went_wrong")
    /\ UNCHANGED <<tipVars, parseVars, auxVars>>

(***************************************************************************)
(* process_and_reply, the background thread of a generating request        *)
(***************************************************************************)
\* The replies the text-generation backend gives in the model: a plan that
\* states "Estimated Time: ~30 minutes" and fills two delivery chunks, and
\* a short answer without a time figure.
Replies ==
    {[content |-> "plan", minutes |-> 30, parts |-> 2],
     [content |-> "answer", minutes |-> 0, parts |-> 1]}

\* re.findall(r"\d+", str(session["weight"])): the first number of the
\* weight text, 0 when it has no digits (indexing [0] then raises).
WeightNumber(weight) == IF weight = "70kg" THEN 70 ELSE 0

\* The MET value chosen from the lower-cased goal.
MET(goal) ==
    LET words == WordsIn(Lower(goal))
    IN IF "muscle" \in words THEN 8
       ELSE IF "weight" \in words \/ "fat" \in words THEN 6
       ELSE IF "cardio" \in words THEN 7
       ELSE 5

\* int(workout_minutes * MET * 3.5 * weight / 200)
CaloriesBurned(minutes, met, weight) == (minutes * met * 35 * weight) \div 2000

\* A value is truthy for "and": neither None nor the empty string.
Truthy(v) == v # PyNone /\ v # ""

\* The thread runs up to the call of graph.invoke: it takes the session
\* of the sender ("session = user_sessions[sender]") and builds the state it
\* passes from the messages the session holds now.
ThreadStart(t) ==
    /\ threads[t].pc = "spawned"
    /\ threads' = [threads EXCEPT ![t] =
           [threads[t] EXCEPT
                !.pc = "invoked",
                !.session = user_sessions[threads[t].user],
                !.start = SessionView(heap[user_sessions[threads[t].user]])]]
    /\ UNCHANGED <<heap, user_sessions, handlers, inbound, workout_logs, jobs, lastEnded>>
    /\ UNCHANGED streakVars
    /\ UNCHANGED lastReply
    /\ UNCHANGED <<tipVars, parseVars, auxVars>>

\* graph.invoke returns a reply.
BackendReplies(t, r) ==
    /\ threads[t].pc = "invoked"
    /\ threads' = [threads EXCEPT ![t] = [@ EXCEPT !.pc = "replied", !.reply = r]]
    /\ UNCHANGED <<heap, user_sessions, handlers, inbound, workout_logs, jobs, lastEnded>>
    /\ UNCHANGED streakVars
    /\ UNCHANGED lastReply
    /\ UNCHANGED <<tipVars, parseVars, auxVars>>

\* graph.invoke raises (backend error or timeout).
BackendRaises(t) ==
    /\ threads[t].pc = "invoked"
    /\ threads' = [threads EXCEPT ![t].pc = "except"]
    /\ UNCHANGED <<heap, user_sessions, handlers, inbound, workout_logs, jobs, lastEnded>>
    /\ UNCHANGED streakVars
    /\ UNCHANGED lastReply
    /\ UNCHANGED <<tipVars, parseVars, auxVars>>

\* From the reply to the first send (no network call in between): the
\* "if is_initial_plan" block with the workout log, the streak update, the
\* latest_streak snapshot and the motivational job, then smart_chunk and
\* the append of the reply to the session's messages. db_up: the store
\* accepts the statements (log_workout_completion otherwise returns False
\* and update_workout_streak raises into the inner except).
PostProcess(t, db_up) ==
    /\ threads[t].pc = "replied"
    /\ LET th == threads[t]
           s == heap[th.session]
           workout_minutes == IF th.is_initial_plan THEN th.reply.minutes ELSE 0
           estimate == /\ workout_minutes # 0
                       /\ Truthy(s.weight)
                       /\ Truthy(s.fitness_goal)
           computed == estimate /\ WeightNumber(s.weight) # 0
           d == StreakDecision(FetchOne(SelectStreak(workout_streaks, th.user)), today)
           streak_ok == /\ computed
                        /\ db_up
                        /\ ~DecisionRaises(workout_streaks, th.user, d)
       IN /\ estimate \/ db_up
          /\ workout_logs' =
                 IF computed /\ db_up
                 THEN Append(workout_logs,
                             [phone_number |-> th.user,
                              workout_minutes |-> workout_minutes,
                              calories_burned |->
                                  CaloriesBurned(workout_minutes, MET(s.fitness_goal),
                                                 WeightNumber(s.weight)),
                              goal |-> s.fitness_goal,
                              date_completed |-> today])
                 ELSE workout_logs
          /\ workout_streaks' =
                 IF streak_ok THEN ApplyDecision(workout_streaks, th.user, d)
                 ELSE workout_streaks
          /\ heap' =
                 [heap EXCEPT ![th.session] =
                     [@ EXCEPT !.latest_streak =
                                   IF streak_ok
                                   THEN [current |-> d.ret[1], is_record |-> d.ret[2],
                                         broke |-> d.ret[3]]
                                   ELSE @,
                               !.messages = Append(@, AIMessage(th.reply.content))]]
          /\ jobs' =
                 IF workout_minutes # 0
                 THEN Append(jobs, [kind |-> "motivational", user |-> th.user,
                                    after_minutes |-> workout_minutes])
                 ELSE jobs
          /\ threads' = [threads EXCEPT ![t].pc = "sending"]
    /\ UNCHANGED <<user_sessions, handlers, inbound, lastEnded>>
    /\ UNCHANGED <<today, lastCall, calledDays, callers>>
    /\ UNCHANGED lastReply
    /\ UNCHANGED <<tipVars, parseVars, auxVars>>

\* The sequence without its t-th element.
Remove(seq, t) == SubSeq(seq, 1, t - 1) \o SubSeq(seq, t + 1, Len(seq))

\* How a run that has returned ended, kept as history when its locals are
\* gone: whether it entered the except block, the parts it delivered,
\* whether the transport accepted the apology, the apologies that reached
\* the user and whether an exception left the function.
Ended(th, failed, accepted, apologies, escaped) ==
    [user |-> th.user, failed |-> failed, sent |-> th.sent,
     accepted |-> accepted, apologies |-> apologies, escaped |-> escaped]

\* client.messages.create for the next part of the reply succeeds; after the
\* last part the thread returns.
SendPart(t) ==
    /\ threads[t].pc = "sending"
    /\ IF threads[t].sent + 1 = threads[t].reply.parts
       THEN /\ threads' = Remove(threads, t)
            /\ lastEnded' = Ended([threads[t] EXCEPT !.sent = @ + 1], FALSE, TRUE, 0, FALSE)
       ELSE /\ threads' = [threads EXCEPT ![t].sent = @ + 1]
            /\ UNCHANGED lastEnded
    /\ UNCHANGED <<heap, user_sessions, handlers, inbound, workout_logs, jobs>>
    /\ UNCHANGED streakVars
    /\ UNCHANGED lastReply
    /\ UNCHANGED <<tipVars, parseVars, auxVars>>

\* client.messages.create for the next part raises.
SendPartRaises(t) ==
    /\ threads[t].pc = "sending"
    /\ threads' = [threads EXCEPT ![t].pc = "except"]
    /\ UNCHANGED <<heap, user_sessions, handlers, inbound, workout_logs, jobs, lastEnded>>
    /\ UNCHANGED streakVars
    /\ UNCHANGED lastReply
    /\ UNCHANGED <<tipVars, parseVars, auxVars>>

\* An except block without the inner try: a refused apology escapes the
\* thread.
AfterExcept_NoInnerTry(th, accepted) ==
    Ended(th, TRUE, accepted, IF accepted THEN 1 ELSE 0, ~accepted)

\* The "except Exception" block: one apology is sent, inside a try of its
\* own whose bare except swallows a refusal by the transport.
AfterExcept(th, accepted) ==
    Ended(th, TRUE, accepted, IF accepted THEN 1 ELSE 0, FALSE)

\* The except block runs; the transport accepts the apology or refuses it.
HandleException(t, accepted) ==
    /\ threads[t].pc = "except"
    /\ threads' = Remove(threads, t)
    /\ lastEnded' = AfterExcept(threads[t], accepted)
    /\ UNCHANGED <<heap, user_sessions, handlers, inbound, workout_logs, jobs>>
    /\ UNCHANGED streakVars
    /\ UNCHANGED lastReply
    /\ UNCHANGED <<tipVars, parseVars, auxVars>>

Threads == DOMAIN threads

Slots == 1..MaxHandlers

Next ==
    \/ \E h \in Slots, u \in Senders, body \in Bodies : Receive(h, u, body)
    \/ \E h \in Slots : Lookup(h)
    \/ \E h \in Slots : CreateSession(h)
    \/ \E h \in Slots : StepTest(h)
    \/ \E h \in Slots : HandleBasic(h)
    \/ \E h \in Slots : HandleRestrictions(h)
    \/ \E h \in Slots : HandlePersonalize(h)
    \/ \E h \in Slots : HandleWeeklyPlan(h)
    \/ \E h \in Slots : HandleOffTopic(h)
    \/ \E h \in Slots : HandleFreeForm(h)
    \/ \E h \in Slots : HandleFallback(h)
    \/ \E t \in Threads : ThreadStart(t)
    \/ \E t \in Threads, r \in Replies : BackendReplies(t, r)
    \/ \E t \in Threads : BackendRaises(t)
    \/ \E t \in Threads, db_up \in BOOLEAN : PostProcess(t, db_up)
    \/ \E t \in Threads : SendPart(t)
    \/ \E t \in Threads : SendPartRaises(t)
    \/ \E t \in Threads, accepted \in BOOLEAN : HandleException(t, accepted)

Init == InitStreak

Spec == Init /\ [][Next]_vars

(***************************************************************************)
(* The same handlers and threads with one request at a time: a request is  *)
(* received only when no other request is being handled and the thread of  *)
(* the request before it has returned.                                     *)
(***************************************************************************)
Quiescent ==
    /\ \A h \in Slots : handlers[h].pc = "idle"
    /\ threads = <<>>

NextSerial ==
    \/ /\ Quiescent
       /\ \E h \in Slots, u \in Senders, body \in Bodies : Receive(h, u, body)
    \/ \E h \in Slots : Lookup(h)
    \/ \E h \in Slots : CreateSession(h)
    \/ \E h \in Slots : StepTest(h)
    \/ \E h \in Slots : HandleBasic(h)
    \/ \E h \in Slots : HandleRestrictions(h)
    \/ \E h \in Slots : HandlePersonalize(h)
    \/ \E h \in Slots : HandleWeeklyPlan(h)
    \/ \E h \in Slots : HandleOffTopic(h)
    \/ \E h \in Slots : HandleFreeForm(h)
    \/ \E t \in Threads : ThreadStart(t)
    \/ \E t \in Threads, r \in Replies : BackendReplies(t, r)
    \/ \E t \in Threads : BackendRaises(t)
    \/ \E t \in Threads, db_up \in BOOLEAN : PostProcess(t, db_up)
    \/ \E t \in Threads : SendPart(t)
    \/ \E t \in Threads : SendPartRaises(t)
    \/ \E t \in Threads, accepted \in BOOLEAN : HandleException(t, accepted)

SpecSerial == Init /\ [][NextSerial]_vars

(***************************************************************************)
(* Properties of the session state machine and of process_and_reply        *)
(***************************************************************************)
\* The onboarding step of the session stored for a user.
StepOf(u) ==
    IF user_sessions[u] = 0 THEN "none"
    ELSE heap[user_sessions[u]].onboarding_step

ForwardSteps ==
    {<<"none", "basic">>, <<"basic", "restrictions">>,
     <<"restrictions", "personalize">>, <<"personalize", "done">>}

\* C1: whatever the inbound messages and their interleaving, the
\* onboarding step of a user's session changes only from basic to
\* restrictions, from restrictions to personalize or from personalize to
\* done (a new session starting at basic); it never moves back and done
\* stays done.
C1_StepOnlyAdvances ==
    [][\A u \in Senders :
           \/ StepOf(u)' = StepOf(u)
           \/ <<StepOf(u), StepOf(u)'>> \in ForwardSteps]_vars

\* A handler that has read the session and has a write of it ahead.
HandlerInSession(h, u) ==
    /\ handlers[h].user = u
    /\ handlers[h].pc \in {"create", "basic", "restrictions", "personalize",
                           "weekly", "freeform"}

\* A thread between its read of the session and its append of the reply.
ThreadInSession(t, u) ==
    /\ threads[t].user = u
    /\ threads[t].pc \in {"invoked", "replied"}

\* C2: at no time are two execution contexts of one user both between
\* their first read and their last write of that user's session.
C2_SessionMutualExclusion ==
    \A u \in Senders :
        Cardinality({h \in Slots : HandlerInSession(h, u)})
            + Cardinality({t \in Threads : ThreadInSession(t, u)}) <= 1

\* C3: when a run of process_and_reply fails, the profile fields, the
\* messages and the latest_streak snapshot of the user's session are what
\* they were when the run started.
C3_FailureLeavesSessionUnchanged ==
    \A t \in Threads :
        threads[t].pc = "except"
            => SessionView(heap[user_sessions[threads[t].user]]) = threads[t].start

\* C4: no run of process_and_reply lets an exception leave the thread; a
\* run that failed, in generation or in delivery, has sent exactly one
\* apology when the transport accepted it, and no run has sent more than
\* one; a run that delivered its reply has sent none.
C4_OneApologyPerFailure ==
    lastEnded # NoRun
        => /\ ~lastEnded.escaped
           /\ lastEnded.apologies <= 1
           /\ (lastEnded.failed /\ lastEnded.accepted) => lastEnded.apologies = 1
           /\ ~lastEnded.failed => lastEnded.apologies = 0

\* A run delivered the first part of its reply, failed on the second, and
\* the transport refused its apology.
C4_Witness ==
    /\ lastEnded # NoRun
    /\ lastEnded.failed
    /\ lastEnded.sent = 1
    /\ ~lastEnded.accepted

(***************************************************************************)
(* Daily tips: the mental_health_tips and user_tip_history tables,         *)
(* get_next_tip_for_user, the daily broadcast and ADMIN TEST_TIP.  Every   *)
(* user of the model is an authorized user.  The dates of these tables are *)
(* SQLite's date('now'); today is that date here.                          *)
(***************************************************************************)
\* The window of "sent_date >= date('now', '-15 days')".
RecentDays == 15

\* The rows user_tip_history may hold in the model.
MaxTipRows == 2

\* The days on which the model runs tip operations; the days between them
\* pass without any.
TipDays == {0, 1, RecentDays, RecentDays + 1}

\* get_next_tip_for_user returned None.
NoTip == 0

TipRow(phone, tip, date) ==
    [phone_number |-> phone, tip_id |-> tip, sent_date |-> date]

\* SELECT id FROM mental_health_tips WHERE active = 1
ActiveTips(tips) == {t \in TipIds : tips[t]}

\* A history query without the phone_number condition.
RecentTips_AnyUser(history, phone, day) ==
    {r.tip_id : r \in {q \in history : q.sent_date >= day - RecentDays}}

\* SELECT DISTINCT tip_id FROM user_tip_history
\* WHERE phone_number = ? AND sent_date >= date('now', '-15 days')
RecentTips(history, phone, day) ==
    {r.tip_id : r \in {q \in history : /\ q.phone_number = phone
                                        /\ q.sent_date >= day - RecentDays}}

\* A rotation that never excludes a tip.
AvailableTips_NoExclusion(all_tips, recent_tips) == all_tips

\* available_tips: the active tips not sent recently, all of them when
\* there is none left.
AvailableTips(all_tips, recent_tips) ==
    IF all_tips \ recent_tips = {} THEN all_tips ELSE all_tips \ recent_tips

\* The tips get_next_tip_for_user(phone_number) can return: None without an
\* active tip, else any member of available_tips (random.choice).
NextTips(phone) ==
    LET all_tips == ActiveTips(mental_health_tips)
    IN IF all_tips = {} THEN {NoTip}
       ELSE AvailableTips(all_tips, RecentTips(user_tip_history, phone, today))

\* get_users_for_daily_tips: the users without a preference row or with
\* receive_tips = 1.
get_users_for_daily_tips ==
    {u \in Users : \A r \in user_tip_preferences :
                       r.phone_number = u => r.receive_tips = 1}

\* log_tip_sent without its INSERT.
LogTipSent_Nothing(history, phone, tip, logged) == history

\* log_tip_sent: the INSERT of (phone_number, tip_id, date('now')), or
\* nothing when the statement raises (the function then returns False).
LogTipSent(history, phone, tip, logged) ==
    IF logged THEN history \cup {TipRow(phone, tip, today)} ELSE history

\* Midnight passes, and the days up to the next day of TipDays with it.
TipClock ==
    /\ \E d \in TipDays : d > today
    /\ today' = CHOOSE d \in TipDays : d > today /\ \A e \in TipDays : e > today => d <= e
    /\ lastTipOp' = NoTipOp
    /\ UNCHANGED <<mental_health_tips, user_tip_history, user_tip_preferences>>
    /\ UNCHANGED <<workout_streaks, lastCall, calledDays, callers>>
    /\ UNCHANGED <<sessionVars, parseVars, auxVars>>

\* deactivate_tip(tip_id) (ADMIN REMOVE_TIP).
deactivate_tip(t) ==
    /\ mental_health_tips[t]
    /\ mental_health_tips' = [mental_health_tips EXCEPT ![t] = FALSE]
    /\ lastTipOp' = NoTipOp
    /\ UNCHANGED <<user_tip_history, user_tip_preferences>>
    /\ UNCHANGED <<streakVars, sessionVars, parseVars, auxVars>>

\* activate_tip(tip_id) (ADMIN ACTIVATE_TIP).
activate_tip(t) ==
    /\ ~mental_health_tips[t]
    /\ mental_health_tips' = [mental_health_tips EXCEPT ![t] = TRUE]
    /\ lastTipOp' = NoTipOp
    /\ UNCHANGED <<user_tip_history, user_tip_preferences>>
    /\ UNCHANGED <<streakVars, sessionVars, parseVars, auxVars>>

\* A call of get_next_tip_for_user(phone_number) returns.
get_next_tip_for_user(u, tip) ==
    /\ tip \in NextTips(u)
    /\ lastTipOp' = [op |-> "next", user |-> u, tip |-> tip, day |-> today,
                     success |-> FALSE]
    /\ UNCHANGED <<mental_health_tips, user_tip_history, user_tip_preferences>>
    /\ UNCHANGED <<streakVars, sessionVars, parseVars, auxVars>>

\* One turn of the loop of send_daily_mental_health_tips (the 7:00 job or
\* ADMIN BROADCAST_TIP): the tip is chosen, sent and logged, and the send is
\* counted as successful unless the choice or the transport failed.
SendDailyTip(u, tip, delivered, logged) ==
    /\ u \in get_users_for_daily_tips
    /\ tip \in NextTips(u)
    /\ (tip = NoTip \/ ~delivered) => logged
    /\ LET success == tip # NoTip /\ delivered
       IN /\ user_tip_history' =
                 IF success THEN LogTipSent(user_tip_history, u, tip, logged)
                 ELSE user_tip_history
          /\ Cardinality(user_tip_history') <= MaxTipRows
          /\ lastTipOp' = [op |-> "daily", user |-> u, tip |-> tip, day |-> today,
                           success |-> success]
    /\ UNCHANGED <<mental_health_tips, user_tip_preferences>>
    /\ UNCHANGED <<streakVars, sessionVars, parseVars, auxVars>>

\* ADMIN TEST_TIP <phone_number>: the tip is chosen and sent; the reply
\* reports the send unless the choice or the transport failed.
TestTip(u, tip, delivered) ==
    /\ tip \in NextTips(u)
    /\ tip = NoTip => delivered
    /\ lastTipOp' = [op |-> "test", user |-> u, tip |-> tip, day |-> today,
                     success |-> tip # NoTip /\ delivered]
    /\ UNCHANGED <<mental_health_tips, user_tip_history, user_tip_preferences>>
    /\ UNCHANGED <<streakVars, sessionVars, parseVars, auxVars>>

TipResults == TipIds \cup {NoTip}

NextTipsSpec ==
    \/ TipClock
    \/ \E t \in TipIds : deactivate_tip(t)
    \/ \E t \in TipIds : activate_tip(t)
    \/ \E u \in Users, tip \in TipResults : get_next_tip_for_user(u, tip)
    \/ \E u \in Users, tip \in TipResults, delivered, logged \in BOOLEAN :
           SendDailyTip(u, tip, delivered, logged)
    \/ \E u \in Users, tip \in TipResults, delivered \in BOOLEAN :
           TestTip(u, tip, delivered)

SpecTips == Init /\ [][NextTipsSpec]_vars

\* A tip was sent to a user on one of the last 15 days or today.
SentRecently(u, t) ==
    \E r \in user_tip_history :
        /\ r.phone_number = u
        /\ r.tip_id = t
        /\ today - r.sent_date <= 15

IsActive(t) == t \in TipIds /\ mental_health_tips[t]

\* C11: get_next_tip_for_user returns no tip exactly when there is no
\* active tip; a tip it returns is active, and was sent to that user within
\* the last 15 days only when every active tip was.
C11_NextTipAvoidsRecent ==
    (lastTipOp # NoTipOp /\ lastTipOp.op = "next")
        => /\ lastTipOp.tip = NoTip <=> ~\E t \in TipIds : IsActive(t)
           /\ lastTipOp.tip # NoTip =>
                 /\ IsActive(lastTipOp.tip)
                 /\ SentRecently(lastTipOp.user, lastTipOp.tip)
                       => \A t \in TipIds :
                              IsActive(t) => SentRecently(lastTipOp.user, t)

\* A call returned a tip not sent to its user while the other active tip
\* was sent to that user exactly 15 days before and to the other user today.
C11_Witness ==
    /\ lastTipOp # NoTipOp
    /\ lastTipOp.op = "next"
    /\ lastTipOp.tip # NoTip
    /\ ~SentRecently(lastTipOp.user, lastTipOp.tip)
    /\ \E t \in TipIds \ {lastTipOp.tip} :
           /\ IsActive(t)
           /\ TipRow(lastTipOp.user, t, today - 15) \in user_tip_history
    /\ \E u \in Users \ {lastTipOp.user} :
           TipRow(u, lastTipOp.tip, today) \in user_tip_history

\* C12: a tip whose send is reported as successful, by the daily broadcast
\* or by ADMIN TEST_TIP, has its user_tip_history row (user, tip, today) by
\* the time the success is reported.
C12_SentTipsAreLogged ==
    (lastTipOp # NoTipOp /\ lastTipOp.success)
        => TipRow(lastTipOp.user, lastTipOp.tip, lastTipOp.day) \in user_tip_history

(***************************************************************************)
(* parse_reminder_message.  Instants are seconds since the midnight that   *)
(* starts day 0; a message is matched word by word.                        *)
(***************************************************************************)
DaySeconds == 24 * 60 * 60

\* The messages given to parse_reminder_message in the model.
ReminderMessages ==
    {"remind me to stretch in 5 minutes", "Remind me to call coach at 9:30",
     "remind me to call at 9:30 in 2 hours", "remind me to run in 90 seconds",
     "remind me to run at 25:00", "remind me to run at 9:75",
     "remind me weekly plan", "remind me to drink water at 0:00",
     "remind me to walk in 5 minutes in 1 hour"}

\* The readings of datetime.now() in the model: midnight, around 9:30 and
\* before midnight and noon on day 0, and 9:30:30 on day 1.
Nows == {0, 34199, 34200, 34201, 43200, 86399, 120630}

\* int(token) of a word matching \d+, -1 for a word that does not match.
IntOf(token) ==
    CASE token = "1" -> 1
      [] token = "2" -> 2
      [] token = "5" -> 5
      [] token = "90" -> 90
      [] OTHER -> -1

\* A word matching (\d{1,2}):(\d{2}) as <<hour, minute>>, <<>> otherwise.
ClockOf(token) ==
    CASE token = "9:30" -> <<9, 30>>
      [] token = "25:00" -> <<25, 0>>
      [] token = "9:75" -> <<9, 75>>
      [] token = "0:00" -> <<0, 0>>
      [] OTHER -> <<>>

\* The alternative of (second|seconds|minute|minutes|hour|hours) a word
\* starts with, "" when it starts with none.
UnitOf(token) ==
    CASE token \in {"second", "seconds"} -> "second"
      [] token \in {"minute", "minutes"} -> "minute"
      [] token \in {"hour", "hours"} -> "hour"
      [] OTHER -> ""

\* The seconds of amount units: 'if "hour" in unit ... elif "minute" in unit'.
UnitSeconds(unit) ==
    IF unit = "hour" THEN 60 * 60 ELSE IF unit = "minute" THEN 60 ELSE 1

\* The positions where "remind me to" starts.
RemindStarts(tokens) ==
    {i \in 1..(Len(tokens) - 2) :
        tokens[i] = "remind" /\ tokens[i + 1] = "me" /\ tokens[i + 2] = "to"}

\* The positions of an "in" that follows a task begun at i and is followed
\* by an amount and a unit.
RelativeEnds(tokens, i) ==
    {j \in (i + 4)..(Len(tokens) - 2) :
        /\ tokens[j] = "in"
        /\ IntOf(tokens[j + 1]) >= 0
        /\ UnitOf(tokens[j + 2]) # ""}

\* The positions of an "at" that follows a task begun at i and is followed
\* by a clock time.
AbsoluteEnds(tokens, i) ==
    {j \in (i + 4)..(Len(tokens) - 1) :
        tokens[j] = "at" /\ ClockOf(tokens[j + 1]) # <<>>}

Least(S) == CHOOSE x \in S : \A y \in S : x <= y

Greatest(S) == CHOOSE x \in S : \A y \in S : x >= y

\* re.search of a grammar, given for each start of "remind me to" the ends
\* the grammar allows: the leftmost start with a match and, the task group
\* being greedy, the last end for it; <<>> when nothing matches.
Search(ends) ==
    LET starts == {i \in DOMAIN ends : ends[i] # {}}
    IN IF starts = {} THEN <<>>
       ELSE <<Least(starts), Greatest(ends[Least(starts)])>>

\* A parser that tries the absolute grammar first.
RelativeFirst_AbsoluteFirst(rel, abs) == abs = <<>>

\* The relative grammar is tried first: its match is used whenever there
\* is one.
RelativeFirst(rel, abs) == rel # <<>>

\* A roll-over that also moves a time equal to now to tomorrow.
RollToTomorrow_OrEqual(remind_time, now) == remind_time <= now

\* "if remind_time < now: remind_time += timedelta(days=1)"
RollToTomorrow(remind_time, now) == remind_time < now

\* now.replace(hour=hour, minute=minute, second=0, microsecond=0)
ReplaceClock(now, hour, minute) ==
    (now - (now % DaySeconds)) + hour * 60 * 60 + minute * 60

NoneNone == [kind |-> "none", task |-> <<>>, time |-> 0]

Raised == [kind |-> "raise", task |-> <<>>, time |-> 0]

Parsed(task, remind_time) == [kind |-> "ok", task |-> task, time |-> remind_time]

\* parse_reminder_message(message) called when datetime.now() reads now.
parse_reminder_message(message, now) ==
    LET tokens == Tokens(Lower(message))
        rel == Search([i \in RemindStarts(tokens) |-> RelativeEnds(tokens, i)])
        abs == Search([i \in RemindStarts(tokens) |-> AbsoluteEnds(tokens, i)])
    IN IF rel # <<>> /\ RelativeFirst(rel, abs)
       THEN Parsed(SubSeq(tokens, rel[1] + 3, rel[2] - 1),
                   now + IntOf(tokens[rel[2] + 1])
                             * UnitSeconds(UnitOf(tokens[rel[2] + 2])))
       ELSE IF abs # <<>>
       THEN LET hour == ClockOf(tokens[abs[2] + 1])[1]
                minute == ClockOf(tokens[abs[2] + 1])[2]
                remind_time == ReplaceClock(now, hour, minute)
            IN IF hour > 23 \/ minute > 59 THEN Raised
               ELSE Parsed(SubSeq(tokens, abs[1] + 3, abs[2] - 1),
                           IF RollToTomorrow(remind_time, now)
                           THEN remind_time + DaySeconds ELSE remind_time)
       ELSE NoneNone

\* A message reaches parse_reminder_message.
ParseCall(message, now) ==
    /\ parseIn' = [message |-> message, now |-> now]
    /\ parseOut' = NoParse
    /\ UNCHANGED auxVars
    /\ UNCHANGED <<streakVars, sessionVars, tipVars>>

\* parse_reminder_message returns or raises.
ParseReturn ==
    /\ parseIn # NoParse
    /\ parseOut = NoParse
    /\ parseOut' = parse_reminder_message(parseIn.message, parseIn.now)
    /\ UNCHANGED auxVars
    /\ UNCHANGED <<parseIn, streakVars, sessionVars, tipVars>>

NextParse ==
    \/ \E message \in ReminderMessages, now \in Nows : ParseCall(message, now)
    \/ ParseReturn

SpecParse == Init /\ [][NextParse]_vars

\* The messages of the model that match the relative grammar, with the
\* amount and the seconds of the unit they state last.
RelativeStated ==
    [message \in {"remind me to stretch in 5 minutes",
                  "remind me to call at 9:30 in 2 hours",
                  "remind me to run in 90 seconds",
                  "remind me to walk in 5 minutes in 1 hour"} |->
        CASE message = "remind me to stretch in 5 minutes" -> <<5, 60>>
          [] message = "remind me to call at 9:30 in 2 hours" -> <<2, 3600>>
          [] message = "remind me to run in 90 seconds" -> <<90, 1>>
          [] OTHER -> <<1, 3600>>]

\* The messages of the model that match only the absolute grammar with a
\* valid time, with the hour and the minute they state.
AbsoluteStated ==
    [message \in {"Remind me to call coach at 9:30",
                  "remind me to drink water at 0:00"} |->
        IF message = "Remind me to call coach at 9:30" THEN <<9, 30>> ELSE <<0, 0>>]

Returned == parseIn # NoParse /\ parseOut # NoParse

\* C14: for a message matching the relative grammar the parser returns
\* now + amount seconds, minutes or hours, also when the message matches
\* the absolute grammar as well.
C14_RelativeFireTime ==
    (Returned /\ parseIn.message \in DOMAIN RelativeStated)
        => /\ parseOut.kind = "ok"
           /\ parseOut.time =
                  parseIn.now + RelativeStated[parseIn.message][1]
                                    * RelativeStated[parseIn.message][2]

\* The parser scheduled "call at 9:30 in 2 hours", two hours after 9:30:01,
\* by the relative grammar.
C14_Witness ==
    /\ Returned
    /\ parseIn.message = "remind me to call at 9:30 in 2 hours"
    /\ parseIn.now = 34201
    /\ parseOut.kind = "ok"
    /\ parseOut.task = <<"call", "at", "9:30">>

\* C15: for a message matching only the absolute grammar with a valid
\* time the parser returns today at H:MM:00 when that is not before now and
\* the same time tomorrow otherwise; the result is never before now and
\* less than 24 hours after it.
C15_AbsoluteFireTime ==
    (Returned /\ parseIn.message \in DOMAIN AbsoluteStated)
        => LET now == parseIn.now
               at == (now \div 86400) * 86400
                         + AbsoluteStated[parseIn.message][1] * 3600
                         + AbsoluteStated[parseIn.message][2] * 60
           IN /\ parseOut.kind = "ok"
              /\ parseOut.time = IF at >= now THEN at ELSE at + 86400
              /\ parseOut.time >= now
              /\ parseOut.time - now < 86400

\* "at 9:30" asked at 9:30:00 sharp was scheduled for that very instant.
C15_Witness ==
    /\ Returned
    /\ parseIn.message = "Remind me to call coach at 9:30"
    /\ parseIn.now = 34200
    /\ parseOut.kind = "ok"
    /\ parseOut.time = 34200

(***************************************************************************)
(* The conversation block of whatsapp_webhook in full, one request at a    *)
(* time: the streak query, the tip preference, the reminder and the plan   *)
(* for today next to the branches above.  A sender still in onboarding     *)
(* sends OnboardBodies, a sender whose session is done sends ChatBodies.    *)
(***************************************************************************)
OnboardBodies == {"", "No", "70kg, 175cm, Muscle Gain"}

ChatBodies ==
    {"", "Stop Tips", "start tips", "streak", "remind me to stretch in 5 minutes",
     "remind me weekly plan", "remind me to run at 25:00", "weekly plan today",
     "today", "workout routine", "how are you", "hello there",
     "why is the sky so blue and green"}

\* The reading of datetime.now() when a reminder request is handled.
ChatNows == {34201}

\* A test that takes every parse result for a reminder.
ReminderAccepted_Always(r) == TRUE

\* "if task and run_time"
ReminderAccepted(r) == r.kind = "ok" /\ r.task # <<>>

\* set_user_tip_preference: INSERT ... ON CONFLICT(phone_number) DO UPDATE.
SetPreference(table, phone, receive_tips) ==
    {r \in table : r.phone_number # phone}
        \cup {[phone_number |-> phone,
               receive_tips |-> IF receive_tips THEN 1 ELSE 0]}

\* The streak query: get_user_streak and the reply, nothing stored.
HandleStreakQuery(h) ==
    /\ handlers[h].pc = "streak"
    /\ handlers' = [handlers EXCEPT ![h] = IdleHandler]
    /\ lastReply' = Response(handlers[h].user, "streak_info")
    /\ UNCHANGED <<heap, user_sessions, threads, inbound, workout_logs, jobs, lastEnded>>
    /\ UNCHANGED <<streakVars, tipVars, parseVars, auxVars>>

\* The tip opt-out and opt-in; stored: the statement did not raise
\* (set_user_tip_preference returns False otherwise, which is not read).
HandleTipPreference(h, stored) ==
    /\ handlers[h].pc \in {"tips_off", "tips_on"}
    /\ user_tip_preferences' =
           IF stored
           THEN SetPreference(user_tip_preferences, handlers[h].user,
                              handlers[h].pc = "tips_on")
           ELSE user_tip_preferences
    /\ handlers' = [handlers EXCEPT ![h] = IdleHandler]
    /\ lastReply' = Response(handlers[h].user,
                             IF handlers[h].pc = "tips_on" THEN "tips_enabled"
                             ELSE "tips_disabled")
    /\ UNCHANGED <<heap, user_sessions, threads, inbound, workout_logs, jobs, lastEnded>>
    /\ UNCHANGED <<mental_health_tips, user_tip_history, lastTipOp>>
    /\ UNCHANGED <<streakVars, parseVars, auxVars>>

\* A reminder branch that also records the request in the history.
HandleRemind_RecordsMessage(h, now) ==
    /\ handlers[h].pc = "remind"
    /\ LET r == parse_reminder_message(handlers[h].body, now)
       IN IF ReminderAccepted(r)
          THEN /\ heap' = [heap EXCEPT ![handlers[h].session] =
                               [@ EXCEPT !.reminders =
                                             Append(@, [text |-> r.task, time |-> r.time]),
                                         !.messages =
                                             Append(@, HumanMessage(handlers[h].body))]]
               /\ jobs' = Append(jobs, [kind |-> "reminder", user |-> handlers[h].user,
                                        task |-> r.task, run_date |-> r.time])
               /\ lastReply' = Response(handlers[h].user, "reminder_set")
          ELSE /\ UNCHANGED <<heap, jobs>>
               /\ lastReply' = Response(handlers[h].user, "invalid_reminder_format")
    /\ handlers' = [handlers EXCEPT ![h] = IdleHandler]
    /\ UNCHANGED <<user_sessions, threads, inbound, workout_logs, lastEnded>>
    /\ UNCHANGED <<streakVars, tipVars, parseVars, auxVars>>

\* The reminder branch: the parsed reminder is appended to the session's
\* reminders and scheduled; a message that does not parse, or whose time
\* cannot be built, raises into the except and gets the format notice.
HandleRemind(h, now) ==
    /\ handlers[h].pc = "remind"
    /\ LET r == parse_reminder_message(handlers[h].body, now)
       IN IF ReminderAccepted(r)
          THEN /\ heap' = [heap EXCEPT ![handlers[h].session].reminders =
                               Append(@, [text |-> r.task, time |-> r.time])]
               /\ jobs' = Append(jobs, [kind |-> "reminder", user |-> handlers[h].user,
                                        task |-> r.task, run_date |-> r.time])
               /\ lastReply' = Response(handlers[h].user, "reminder_set")
          ELSE /\ UNCHANGED <<heap, jobs>>
               /\ lastReply' = Response(handlers[h].user, "invalid_reminder_format")
    /\ handlers' = [handlers EXCEPT ![h] = IdleHandler]
    /\ UNCHANGED <<user_sessions, threads, inbound, workout_logs, lastEnded>>
    /\ UNCHANGED <<streakVars, tipVars, parseVars, auxVars>>

TodayPlanRequest == HumanMessage("What's my workout plan for today?")

\* The plan-for-today branch.
HandleTodayPlan(h) ==
    /\ handlers[h].pc = "today"
    /\ heap' = [heap EXCEPT ![handlers[h].session].messages =
                    Append(@, TodayPlanRequest)]
    /\ threads' = Append(threads, NewThread(handlers[h].user, TRUE, ""))
    /\ handlers' = [handlers EXCEPT ![h] = IdleHandler]
    /\ lastReply' = Response(handlers[h].user, "preparing_today_plan")
    /\ UNCHANGED <<user_sessions, inbound, workout_logs, jobs, lastEnded>>
    /\ UNCHANGED <<streakVars, tipVars, parseVars, auxVars>>

\* The bodies a sender sends, by the step of the session stored for it.
BodiesFor(u) ==
    IF user_sessions[u] # 0 /\ heap[user_sessions[u]].onboarding_step = "done"
    THEN ChatBodies ELSE OnboardBodies

NextChat ==
    \/ /\ Quiescent
       /\ \E h \in Slots, u \in Senders :
              \E body \in BodiesFor(u) : Receive(h, u, body)
    \/ \E h \in Slots : Lookup(h)
    \/ \E h \in Slots : CreateSession(h)
    \/ \E h \in Slots : StepTest(h)
    \/ \E h \in Slots : HandleBasic(h)
    \/ \E h \in Slots : HandleRestrictions(h)
    \/ \E h \in Slots : HandlePersonalize(h)
    \/ \E h \in Slots : HandleStreakQuery(h)
    \/ \E h \in Slots, stored \in BOOLEAN : HandleTipPreference(h, stored)
    \/ \E h \in Slots, now \in ChatNows : HandleRemind(h, now)
    \/ \E h \in Slots : HandleWeeklyPlan(h)
    \/ \E h \in Slots : HandleTodayPlan(h)
    \/ \E h \in Slots : HandleOffTopic(h)
    \/ \E h \in Slots : HandleFreeForm(h)
    \/ \E t \in Threads : ThreadStart(t)
    \/ \E t \in Threads, r \in Replies : BackendReplies(t, r)
    \/ \E t \in Threads : BackendRaises(t)
    \/ \E t \in Threads, db_up \in BOOLEAN : PostProcess(t, db_up)
    \/ \E t \in Threads : SendPart(t)
    \/ \E t \in Threads : SendPartRaises(t)
    \/ \E t \in Threads, accepted \in BOOLEAN : HandleException(t, accepted)

SpecChat == Init /\ [][NextChat]_vars

\* The handler in slot h returns from the branch at pc in this step.
ReturnsFrom(h, pc) == handlers[h].pc = pc /\ handlers'[h].pc = "idle"

\* The messages holding "remind" that state no reminder: one without
\* "to ... in/at", one whose clock time is no time of day.
MalformedReminders == {"remind me weekly plan", "remind me to run at 25:00"}

\* C13: in a finished session a message holding "remind" that fits neither
\* reminder form, or states an hour or minute that is no time of day, is
\* answered with the format notice and nothing else: no job is scheduled,
\* the session's reminders and messages stay as they were and no generation
\* is started.
C13_MalformedReminderOnlyNotice ==
    [][\A h \in Slots :
           (ReturnsFrom(h, "remind") /\ handlers[h].body \in MalformedReminders)
               => /\ lastReply' = [to |-> handlers[h].user,
                                   kind |-> "invalid_reminder_format"]
                  /\ jobs' = jobs
                  /\ heap' = heap
                  /\ threads' = threads
                  /\ workout_logs' = workout_logs]_vars

C13_Witness ==
    /\ lastReply # NoResponse
    /\ lastReply.kind = "invalid_reminder_format"
    /\ jobs = <<>>
    /\ threads = <<>>
    /\ \A h \in Slots : handlers[h].pc = "idle"
    /\ \E u \in Senders :
           /\ user_sessions[u] # 0
           /\ heap[user_sessions[u]].onboarding_step = "done"
           /\ heap[user_sessions[u]].reminders = <<>>

\* The branch a message of a finished session is to be handled by: the
\* first in the order tip opt-out or opt-in, streak query, "remind",
\* weekly plan, plan for today, out of domain, free form.
StatedBranch(body) ==
    LET text == Lower(body)
        words == WordsIn(text)
    IN CASE text \in {"stop tips", "no tips", "disable tips", "unsubscribe tips"}
                -> "tips_off"
         [] text \in {"start tips", "enable tips", "resume tips", "subscribe tips"}
                -> "tips_on"
         [] OTHER ->
            IF text \in {"streak", "my streak", "check streak", "show streak",
                         "streak stats"} THEN "streak"
            ELSE IF "remind" \in words THEN "remind"
            ELSE IF words \cap {"weekly plan", "week plan", "7 day", "weekly workout"} # {}
                 THEN "weekly"
            ELSE IF words \cap {"today", "today's plan", "plan for today",
                                "workout today"} # {} THEN "today"
            ELSE IF ~is_fitness_related(body) THEN "offtopic"
            ELSE "freeform"

\* The replies by which each branch answers.
BranchReplies(branch) ==
    CASE branch = "tips_off" -> {"tips_disabled"}
      [] branch = "tips_on"  -> {"tips_enabled"}
      [] branch = "streak"   -> {"streak_info"}
      [] branch = "remind"   -> {"reminder_set", "invalid_reminder_format"}
      [] branch = "weekly"   -> {"creating_weekly_plan"}
      [] branch = "today"    -> {"preparing_today_plan"}
      [] branch = "offtopic" -> {"off_topic"}
      [] OTHER               -> {"got_it"}

DoneBranches ==
    {"tips_off", "tips_on", "streak", "remind", "weekly", "today", "offtopic",
     "freeform"}

\* C16: a message of a finished session is handled by exactly one branch,
\* the first that matches in the order tip opt-out or opt-in, streak query,
\* "remind", weekly plan, plan for today, out of domain, free form: the one
\* reply of the request is that branch's, a reminder is stored or a job
\* scheduled by the reminder branch only, a generation is started by the
\* weekly, today and free-form branches only (one), and a tip preference is
\* written by the tip branches only.
C16_OneBranchInOrder ==
    [][\A h \in Slots :
           (handlers[h].pc \in DoneBranches /\ handlers'[h].pc = "idle")
               => LET branch == StatedBranch(handlers[h].body)
                  IN /\ lastReply'.to = handlers[h].user
                     /\ lastReply'.kind \in BranchReplies(branch)
                     /\ (jobs' # jobs => branch = "remind")
                     /\ (heap'[handlers[h].session].reminders
                             # heap[handlers[h].session].reminders
                            => branch = "remind")
                     /\ Len(threads') = Len(threads)
                            + (IF branch \in {"weekly", "today", "freeform"}
                               THEN 1 ELSE 0)
                     /\ (heap'[handlers[h].session].messages
                             # heap[handlers[h].session].messages
                            => branch \in {"weekly", "today", "freeform"})
                     /\ (user_tip_preferences' # user_tip_preferences
                            => branch \in {"tips_off", "tips_on"})]_vars

\* "weekly plan today", which also asks for the plan of today, has reached
\* the weekly branch of a finished session.
C16_Witness ==
    \E h \in Slots :
        /\ handlers[h].pc = "weekly"
        /\ handlers[h].body = "weekly plan today"
        /\ heap[handlers[h].session].onboarding_step = "done"

\* C17: the free-form branch appends the user's message unchanged and starts
\* a generation that is no plan generation (is_initial_plan false), so the
\* generation it starts never adds a workout log, never changes a streak and
\* never schedules a motivational job.
C17_FreeFormIsNoPlanRequest ==
    [][/\ \A h \in Slots :
              ReturnsFrom(h, "freeform")
                  => /\ heap'[handlers[h].session].messages
                            = Append(heap[handlers[h].session].messages,
                                     [role |-> "human", content |-> handlers[h].body])
                     /\ Len(threads') = Len(threads) + 1
                     /\ threads'[Len(threads')].is_initial_plan = FALSE
       /\ \A t \in DOMAIN threads :
              (threads[t].incoming_msg # "" /\ threads[t].pc = "replied")
                  => /\ workout_logs' = workout_logs
                     /\ workout_streaks' = workout_streaks
                     /\ jobs' = jobs]_vars

\* Thread t finishes the bookkeeping after the reply in this step.
Bookkeeps(t) ==
    /\ threads[t].pc = "replied"
    /\ t \in DOMAIN threads'
    /\ threads'[t].pc = "sending"

\* C18: whenever a plan generation succeeds with an estimated time of N
\* minutes, whatever the session holds (weight and goal set or never set),
\* exactly one workout log entry is persisted, the streak row of the user is
\* then brought to today, and one motivational job is scheduled N minutes
\* ahead; the streak is never changed without the log entry persisted.
C18_PlanIsLoggedThenStreak ==
    [][\A t \in DOMAIN threads :
           Bookkeeps(t)
               => /\ (threads[t].is_initial_plan /\ threads[t].reply.minutes # 0)
                         => /\ Len(workout_logs') = Len(workout_logs) + 1
                            /\ workout_logs'[Len(workout_logs')].phone_number
                                   = threads[t].user
                            /\ \E r \in workout_streaks' :
                                   /\ r.phone_number = threads[t].user
                                   /\ r.last_workout_date = today
                            /\ jobs' = Append(jobs,
                                   [kind |-> "motivational", user |-> threads[t].user,
                                    after_minutes |-> threads[t].reply.minutes])
                  /\ (workout_streaks' # workout_streaks
                         => Len(workout_logs') = Len(workout_logs) + 1)]_vars

\* C19: every step that brings a session to "done" appends exactly one
\* request for a starting plan to its messages and starts exactly one
\* generation, a plan generation (is_initial_plan true); a request handled
\* at "basic" or "restrictions" appends no message and starts no generation.
C19_DoneStartsOnePlanGeneration ==
    [][/\ \A s \in DOMAIN heap :
              (heap[s].onboarding_step # "done" /\ heap'[s].onboarding_step = "done")
                  => /\ heap'[s].messages
                            = Append(heap[s].messages,
                                     [role |-> "human",
                                      content |-> "Suggest a personalized starting plan for me."])
                     /\ Len(threads') = Len(threads) + 1
                     /\ \A t \in DOMAIN threads : threads'[t] = threads[t]
                     /\ threads'[Len(threads')].is_initial_plan = TRUE
                     /\ threads'[Len(threads')].pc = "spawned"
                     /\ \E h \in Slots :
                            /\ ReturnsFrom(h, "personalize")
                            /\ handlers[h].session = s
                            /\ threads'[Len(threads')].user = handlers[h].user
       /\ \A h \in Slots :
              (ReturnsFrom(h, "basic") \/ ReturnsFrom(h, "restrictions"))
                  => /\ heap'[handlers[h].session].messages
                            = heap[handlers[h].session].messages
                     /\ threads' = threads]_vars

\* A session brought to "done" by "No" (no weight stored) holds the one plan
\* request and its plan generation has been started.
C19_Witness ==
    /\ Len(threads) = 1
    /\ threads[1].pc = "spawned"
    /\ threads[1].is_initial_plan
    /\ \E u \in Senders :
           /\ user_sessions[u] # 0
           /\ heap[user_sessions[u]].onboarding_step = "done"
           /\ heap[user_sessions[u]].weight = PyNone
           /\ heap[user_sessions[u]].messages = <<PlanRequest>>

\* The input a step of the onboarding asks for: Name, Age, Gender at
\* "basic"; some text at "restrictions"; "no" or Weight, Height, Goal (and
\* injuries) at "personalize".
RequiredInput(step, body) ==
    /\ body # ""
    /\ CASE step = "basic" -> Len(SplitComma(body)) >= 3
         [] step = "personalize" ->
                Lower(body) = "no" \/ Len(SplitComma(body)) >= 3
         [] OTHER -> TRUE

\* C20: the onboarding step of a session advances only when the input
\* handled in that step was non-empty and parseable; an empty body, or one
\* without the comma-separated fields the step asks for, leaves the step
\* where it was.
C20_StepAdvancesOnValidInput ==
    [][\A h \in Slots :
           (/\ handlers[h].pc \in {"basic", "restrictions", "personalize"}
            /\ handlers'[h].pc = "idle"
            /\ heap'[handlers[h].session].onboarding_step
                   # heap[handlers[h].session].onboarding_step)
               => RequiredInput(handlers[h].pc, handlers[h].body)]_vars

\* The fields the onboarding bodies hold between their commas, trimmed.
CommaFields(body) ==
    CASE body = "" -> <<"">>
      [] body = "No" -> <<"No">>
      [] body = "70kg, 175cm, Muscle Gain" -> <<"70kg", "175cm", "Muscle Gain">>

\* The fields of a session other than its step.
ProfileFields ==
    {"messages", "name", "age", "gender", "weight", "height", "fitness_goal",
     "injury", "reminders", "last_goal_check", "user_restrictions", "latest_streak"}

\* The session object of slot h changes in this step in its step and the
\* fields named only.
OnlyChanges(h, fields) ==
    /\ \A f \in ProfileFields \ fields :
           heap'[handlers[h].session][f] = heap[handlers[h].session][f]
    /\ \A s \in DOMAIN heap : s # handlers[h].session => heap'[s] = heap[s]

\* C21: every message handled at "basic" moves the session to
\* "restrictions", whatever it holds: name, age and gender are the first
\* three comma-separated fields of the body, a field the body does not have
\* is stored as none, no other field of the profile changes, and no body
\* leaves the session at "basic".
C21_BasicAlwaysAdvances ==
    [][\A h \in Slots :
           ReturnsFrom(h, "basic")
               => LET fields == CommaFields(handlers[h].body)
                      after == heap'[handlers[h].session]
                  IN /\ after.onboarding_step = "restrictions"
                     /\ after.name = fields[1]
                     /\ after.age = (IF Len(fields) >= 2 THEN fields[2] ELSE PyNone)
                     /\ after.gender = (IF Len(fields) >= 3 THEN fields[3] ELSE PyNone)
                     /\ OnlyChanges(h, {"name", "age", "gender"})
                     /\ threads' = threads /\ jobs' = jobs]_vars

\* An empty body was handled at "basic": the session is at "restrictions"
\* with an empty name and no age.
C21_Witness ==
    \E u \in Senders :
        /\ user_sessions[u] # 0
        /\ heap[user_sessions[u]].onboarding_step = "restrictions"
        /\ heap[user_sessions[u]].name = ""
        /\ heap[user_sessions[u]].age = PyNone
        /\ \A h \in Slots : handlers[h].pc = "idle"

\* C22: every message handled at "personalize" moves the session to "done":
\* on "no" (in any case) weight, height, goal and injury stay as they were,
\* otherwise they are the comma-separated fields of the body, the injury
\* being "None" when there is no fourth field; name, age, gender and the
\* restrictions are unchanged both ways.  A message handled at
\* "restrictions" is stored unchanged as the restrictions and moves the
\* session to "personalize".
C22_PersonalizeAndRestrictionsFrame ==
    [][\A h \in Slots :
           /\ ReturnsFrom(h, "personalize")
                  => LET fields == CommaFields(handlers[h].body)
                         before == heap[handlers[h].session]
                         after == heap'[handlers[h].session]
                         Field(i, missing) ==
                             IF Len(fields) >= i THEN fields[i] ELSE missing
                     IN /\ after.onboarding_step = "done"
                        /\ IF handlers[h].body = "No"
                           THEN /\ after.weight = before.weight
                                /\ after.height = before.height
                                /\ after.fitness_goal = before.fitness_goal
                                /\ after.injury = before.injury
                           ELSE /\ after.weight = Field(1, PyNone)
                                /\ after.height = Field(2, PyNone)
                                /\ after.fitness_goal = Field(3, PyNone)
                                /\ after.injury = Field(4, "None")
                        /\ OnlyChanges(h, {"weight", "height", "fitness_goal",
                                           "injury", "messages"})
           /\ ReturnsFrom(h, "restrictions")
                  => /\ heap'[handlers[h].session].onboarding_step = "personalize"
                     /\ heap'[handlers[h].session].user_restrictions = handlers[h].body
                     /\ OnlyChanges(h, {"user_restrictions"})]_vars

\* A session personalized with three fields: the injury is "None", the
\* name and the restrictions are the ones given before.
C22_Witness ==
    \E u \in Senders :
        /\ user_sessions[u] # 0
        /\ heap[user_sessions[u]].onboarding_step = "done"
        /\ heap[user_sessions[u]].weight = "70kg"
        /\ heap[user_sessions[u]].fitness_goal = "Muscle Gain"
        /\ heap[user_sessions[u]].injury = "None"
        /\ heap[user_sessions[u]].name = "No"
        /\ heap[user_sessions[u]].user_restrictions = ""

\* The handler in slot h returns its reply in this step.
Returns(h) == handlers[h].pc # "idle" /\ handlers'[h].pc = "idle"

\* The step of the session stored for u after this step, "" when none is.
StepAfter(u) ==
    IF user_sessions'[u] = 0 THEN ""
    ELSE heap'[user_sessions'[u]].onboarding_step

\* The step of the session stored for u, "" when none is.
StepBefore(u) ==
    IF user_sessions[u] = 0 THEN "" ELSE heap[user_sessions[u]].onboarding_step

\* This step starts exactly one generation, a plan generation for u.
StartsOnePlanGeneration(u) ==
    /\ Len(threads') = Len(threads) + 1
    /\ threads'[Len(threads')].user = u
    /\ threads'[Len(threads')].is_initial_plan = TRUE

\* C23: for a new user (no session stored), the three inbound messages
\* "name, age, gender", any restrictions text and "No" bring the session to
\* "restrictions" after the first, "personalize" after the second and
\* "done" after the third, and one plan generation is started in total, by
\* the third message.
C23_ThreeMessagesFromNewUser ==
    [][\A h \in Slots :
           Returns(h)
               => LET u == handlers[h].user
                  IN /\ (inbound = 1 /\ StepBefore(u) = ""
                             /\ Len(CommaFields(handlers[h].body)) = 3)
                            => StepAfter(u) = "restrictions" /\ threads' = threads
                     /\ (inbound = 2 /\ StepBefore(u) = "restrictions")
                            => StepAfter(u) = "personalize" /\ threads' = threads
                     /\ (inbound = 3 /\ StepBefore(u) = "personalize"
                             /\ handlers[h].body = "No")
                            => StepAfter(u) = "done" /\ StartsOnePlanGeneration(u)]_vars

\* C23, amended: the first inbound message of a new user creates the
\* session at "basic" and is answered by the greeting, whatever it holds;
\* the three messages after it, "name, age, gender", any restrictions text
\* and "No", bring the session to "restrictions", "personalize" and "done",
\* and one plan generation is started in total, by the last of them.
C23_ThreeMessagesAfterGreeting ==
    [][\A h \in Slots :
           Returns(h)
               => LET u == handlers[h].user
                  IN /\ (inbound = 1 /\ StepBefore(u) = "")
                            => /\ StepAfter(u) = "basic"
                               /\ heap'[user_sessions'[u]].name = PyNone
                               /\ lastReply' = [to |-> u, kind |-> "greeting"]
                               /\ threads' = threads
                     /\ (inbound = 2 /\ StepBefore(u) = "basic"
                             /\ Len(CommaFields(handlers[h].body)) = 3)
                            => StepAfter(u) = "restrictions" /\ threads' = threads
                     /\ (inbound = 3 /\ StepBefore(u) = "restrictions")
                            => StepAfter(u) = "personalize" /\ threads' = threads
                     /\ (inbound = 4 /\ StepBefore(u) = "personalize"
                             /\ handlers[h].body = "No")
                            => StepAfter(u) = "done" /\ StartsOnePlanGeneration(u)]_vars

\* The fourth message of a new user, "No", has been answered: the session
\* is done with the three details of the second message and one plan
\* generation has been started.
C23_Witness ==
    /\ inbound = 4
    /\ \A h \in Slots : handlers[h].pc = "idle"
    /\ Len(threads) = 1
    /\ threads[1].is_initial_plan
    /\ \E u \in Senders :
           /\ user_sessions[u] # 0
           /\ heap[user_sessions[u]].onboarding_step = "done"
           /\ heap[user_sessions[u]].name = "70kg"
           /\ heap[user_sessions[u]].gender = "Muscle Gain"
           /\ heap[user_sessions[u]].weight = PyNone

(***************************************************************************)
(* The requests of one sender arriving one after the other while the       *)
(* generation started by the request before is still running: a request    *)
(* is received when no other request is being handled and the generations  *)
(* older than the last one have returned, whatever the last one is doing.  *)
(***************************************************************************)
NoRequestHandled ==
    /\ \A h \in Slots : handlers[h].pc = "idle"
    /\ \A t \in DOMAIN threads : t = Len(threads)

\* The bodies a sender sends: "No" until the session asks for the personal
\* details, every body from then on.
AckBodiesFor(u) ==
    IF user_sessions[u] = 0
           \/ heap[user_sessions[u]].onboarding_step \in {"basic", "restrictions"}
    THEN {"No"} ELSE Bodies

NextAck ==
    \/ /\ NoRequestHandled
       /\ \E h \in Slots, u \in Senders :
              \E body \in AckBodiesFor(u) : Receive(h, u, body)
    \/ \E h \in Slots : Lookup(h)
    \/ \E h \in Slots : CreateSession(h)
    \/ \E h \in Slots : StepTest(h)
    \/ \E h \in Slots : HandleBasic(h)
    \/ \E h \in Slots : HandleRestrictions(h)
    \/ \E h \in Slots : HandlePersonalize(h)
    \/ \E h \in Slots : HandleWeeklyPlan(h)
    \/ \E h \in Slots : HandleOffTopic(h)
    \/ \E h \in Slots : HandleFreeForm(h)
    \/ \E t \in Threads : ThreadStart(t)
    \/ \E t \in Threads, r \in Replies : BackendReplies(t, r)
    \/ \E t \in Threads : BackendRaises(t)
    \/ \E t \in Threads, db_up \in BOOLEAN : PostProcess(t, db_up)
    \/ \E t \in Threads : SendPart(t)
    \/ \E t \in Threads : SendPartRaises(t)
    \/ \E t \in Threads, accepted \in BOOLEAN : HandleException(t, accepted)

SpecAck == Init /\ [][NextAck]_vars

\* The branches that start a generation.
GeneratingBranches == {"personalize", "weekly", "today", "freeform"}

\* The handler in slot h, in a branch that starts a generation, returns its
\* acknowledgment: the reply goes out in the step that starts the thread,
\* the thread not having run yet.
Acknowledges(h) ==
    /\ \/ HandlePersonalize(h)
       \/ HandleWeeklyPlan(h)
       \/ HandleTodayPlan(h)
       \/ HandleFreeForm(h)
    /\ handlers'[h].pc = "idle"
    /\ lastReply'.to = handlers[h].user
    /\ lastReply'.kind \in {"preparing_plan", "creating_weekly_plan",
                            "preparing_today_plan", "got_it"}
    /\ Len(threads') = Len(threads) + 1
    /\ threads'[Len(threads')].pc = "spawned"
    /\ \A t \in DOMAIN threads : threads'[t] = threads[t]

\* C24: a request that starts a generation is acknowledged without waiting
\* for any generation: whenever its handler has reached the branch, the
\* acknowledgment can be returned at once, whatever the threads started
\* before are doing (not started, waiting for the backend, sending) and
\* whether or not they ever go on, and returning it leaves them untouched.
C24_AcknowledgedWithoutWaiting ==
    \A h \in Slots :
        handlers[h].pc \in GeneratingBranches => ENABLED Acknowledges(h)

\* A request has been acknowledged and its generation started while the
\* generation of the request before is still waiting for the backend.
C24_Witness ==
    /\ Len(threads) = 2
    /\ threads[1].pc = "invoked"
    /\ threads[2].pc = "spawned"
    /\ \A h \in Slots : handlers[h].pc = "idle"
    /\ lastReply # NoResponse
    /\ lastReply.kind \in {"creating_weekly_plan", "got_it"}

(***************************************************************************)
(* The scheduler: the BackgroundScheduler of app.py with the jobs the      *)
(* module registers when loaded and the one-shot jobs of schedule_reminder *)
(* and process_and_reply.  Time is counted in ticks of one day.  The       *)
(* scheduler runs a job that is due in an execution context of its own,    *)
(* catches and logs what the callback raises, removes a one-shot job once  *)
(* it has run and gives a periodic job its next run time.                  *)
(***************************************************************************)
MaxTick == 3

MaxOneShots == 1

\* The delays, in ticks, of the one-shot jobs registered.
Delays == {0, 1, 2}

SchedJobs == DOMAIN scheduler.jobs

OneShots == {j \in SchedJobs : scheduler.jobs[j].trigger = "date"}

\* scheduler.add_job(..., "date", run_date=run_time, ...) registered every
\* tick instead.
DateJob_Repeating(kind, run_time) ==
    [kind |-> kind, trigger |-> "periodic", period |-> 1, run_at |-> run_time,
     pending |-> TRUE, fired |-> 0]

\* scheduler.add_job(..., "date", run_date=run_time, ...)
DateJob(kind, run_time) ==
    [kind |-> kind, trigger |-> "date", period |-> 0, run_at |-> run_time,
     pending |-> TRUE, fired |-> 0]

NoFiring == [none |-> TRUE]

\* The clock of the scheduler moves on.
SchedTick ==
    /\ scheduler.now < MaxTick
    /\ scheduler' = [scheduler EXCEPT !.now = @ + 1, !.last = NoFiring]
    /\ UNCHANGED <<streakVars, sessionVars, tipVars, parseVars, chunking, weekly, gateVars>>

\* schedule_reminder(sender, task, run_time)
schedule_reminder(delay) ==
    /\ Cardinality(OneShots) < MaxOneShots
    /\ scheduler' = [scheduler EXCEPT
           !.jobs = Append(@, DateJob("send_reminder", scheduler.now + delay)),
           !.last = NoFiring]
    /\ UNCHANGED <<streakVars, sessionVars, tipVars, parseVars, chunking, weekly, gateVars>>

\* process_and_reply: the motivational message, workout_minutes from now.
ScheduleMotivational(delay) ==
    /\ Cardinality(OneShots) < MaxOneShots
    /\ delay > 0
    /\ scheduler' = [scheduler EXCEPT
           !.jobs = Append(@, DateJob("motivational", scheduler.now + delay)),
           !.last = NoFiring]
    /\ UNCHANGED <<streakVars, sessionVars, tipVars, parseVars, chunking, weekly, gateVars>>

\* A job is due: the scheduler is running, the job is pending and its run
\* time has come.
Due(j) ==
    /\ scheduler.running
    /\ scheduler.jobs[j].pending
    /\ scheduler.jobs[j].run_at <= scheduler.now

\* The job after a firing: a one-shot job is removed from the pending
\* jobs, a periodic job gets the next run time of its series after now
\* (run times missed in between are coalesced into the one firing).
AfterFiring(job, now) ==
    IF job.trigger = "date"
    THEN [job EXCEPT !.pending = FALSE, !.fired = @ + 1]
    ELSE [job EXCEPT !.run_at = @ + (((now - @) \div job.period) + 1) * job.period,
                     !.fired = IF @ = 0 THEN 1 ELSE 2]

\* The scheduler fires job j; raised: its callback raised (send_reminder and
\* client.messages.create raise what the send raises).  What is raised is
\* caught and logged by the scheduler.
Fire(j, raised) ==
    /\ Due(j)
    /\ scheduler' = [scheduler EXCEPT
           !.jobs[j] = AfterFiring(scheduler.jobs[j], scheduler.now),
           !.last = [job |-> j, raised |-> raised]]
    /\ UNCHANGED <<streakVars, sessionVars, tipVars, parseVars, chunking, weekly, gateVars>>

NextSched ==
    \/ SchedTick
    \/ \E delay \in Delays : schedule_reminder(delay)
    \/ \E delay \in Delays : ScheduleMotivational(delay)
    \/ \E j \in SchedJobs, raised \in BOOLEAN : Fire(j, raised)

SpecSched == Init /\ [][NextSched]_vars

\* The jobs that fire once and the jobs that fire again and again.
OneShotKinds == {"send_reminder", "motivational"}

PeriodicKinds ==
    {"clean_expired_users", "daily_mental_health_tips", "weekly_progress_reports"}

\* Job j is fired in this step.
Fires(j) == scheduler'.last # NoFiring /\ scheduler'.last.job = j

\* C25: a firing whose callback raises does not stop the scheduler, does not
\* remove or delay any other pending job and, for a periodic job, does not
\* cancel its future firings: the scheduler runs on, the clock and every
\* other job are as before, so that every job that is due or becomes due
\* still fires, and the periodic job is pending with a later run time.
C25_RaisingCallbackIsContained ==
    [][\A j \in SchedJobs :
           (Fires(j) /\ scheduler'.last.raised)
               => /\ scheduler'.running
                  /\ scheduler'.now = scheduler.now
                  /\ DOMAIN scheduler'.jobs = SchedJobs
                  /\ \A k \in SchedJobs \ {j} :
                         /\ scheduler'.jobs[k] = scheduler.jobs[k]
                         /\ Due(k) => /\ scheduler'.jobs[k].pending
                                      /\ scheduler'.jobs[k].run_at <= scheduler'.now
                  /\ scheduler.jobs[j].kind \in PeriodicKinds
                         => /\ scheduler'.jobs[j].pending
                            /\ scheduler'.jobs[j].run_at > scheduler.now]_vars

\* The callback of a periodic job has raised while a one-shot job was due;
\* the one-shot job is still due.
C25_Witness ==
    /\ scheduler.last # NoFiring
    /\ scheduler.last.raised
    /\ scheduler.jobs[scheduler.last.job].kind \in PeriodicKinds
    /\ scheduler.jobs[scheduler.last.job].fired = 2
    /\ \E k \in OneShots : Due(k)

\* C26: a one-shot job (a reminder, a motivational message) runs at most
\* once and never before its run time, and from its registration it stays
\* pending with that run time until it fires, nothing cancelling it; a
\* periodic job (expiry cleanup, daily tips, weekly reports) is pending
\* after every step, its firings included.
C26_OneShotOncePeriodicArmed ==
    [][\A j \in SchedJobs :
           LET job == scheduler.jobs[j]
           IN /\ j \in DOMAIN scheduler'.jobs
              /\ job.kind \in OneShotKinds
                     => /\ job.fired = 0 => job.pending
                        /\ Fires(j) => /\ job.fired = 0
                                       /\ job.run_at <= scheduler.now
                                       /\ scheduler'.jobs[j].fired = 1
                        /\ ~Fires(j) => scheduler'.jobs[j] = job
              /\ job.kind \in PeriodicKinds
                     => /\ scheduler'.jobs[j].pending
                        /\ scheduler'.jobs[j].run_at >= job.run_at]_vars

\* A reminder has run, after its run time, and is no longer pending; the
\* daily tips have fired and are pending for the next day.
C26_Witness ==
    /\ \E j \in SchedJobs :
           /\ scheduler.jobs[j].kind = "send_reminder"
           /\ scheduler.jobs[j].fired = 1
           /\ ~scheduler.jobs[j].pending
           /\ scheduler.jobs[j].run_at < scheduler.now
    /\ \E j \in SchedJobs :
           /\ scheduler.jobs[j].kind = "daily_mental_health_tips"
           /\ scheduler.jobs[j].fired >= 1
           /\ scheduler.jobs[j].pending
           /\ scheduler.jobs[j].run_at > scheduler.now

(***************************************************************************)
(* smart_chunk of process_and_reply.  A text is the sequence of its        *)
(* characters; positions are counted from 0 as str.rfind and slices count  *)
(* them, -1 standing for "not found".                                      *)
(***************************************************************************)
MaxTextLen == 5

\* The values of max_length tried (1500 in delivery).
MaxLengths == {2, 3}

Alphabet == {"a", " ", "\n", ".", "!", "?"}

Whitespace == {" ", "\n"}

Texts == UNION {[1..n -> Alphabet] : n \in 0..MaxTextLen}

\* str.strip()
Strip(s) ==
    LET kept == {i \in 1..Len(s) : s[i] \notin Whitespace}
    IN IF kept = {} THEN <<>> ELSE SubSeq(s, Least(kept), Greatest(kept))

\* chunk.rfind(c)
RFind(chunk, c) ==
    Greatest({-1} \cup {i \in 0..(Len(chunk) - 1) : chunk[i + 1] = c})

\* chunk.rfind(c + d)
RFindPair(chunk, c, d) ==
    Greatest({-1} \cup {i \in 0..(Len(chunk) - 2) :
                            chunk[i + 1] = c /\ chunk[i + 2] = d})

\* A cut that, when nothing is found, is made past the window.
CutAfter_PastWindow(found, max_length) ==
    IF found = -1 THEN max_length + 1 ELSE found + 1

\* "if split_pos == -1: split_pos = max_length - 1 / else: split_pos += 1"
CutAfter(found, max_length) ==
    IF found = -1 THEN max_length - 1 ELSE found + 1

\* A search that looks for a space before it looks for a newline.
Boundary_SpaceFirst(chunk) ==
    LET last_period == Greatest({RFindPair(chunk, ".", " "), RFindPair(chunk, ".", "\n")})
        last_exclaim == Greatest({RFindPair(chunk, "!", " "), RFindPair(chunk, "!", "\n")})
        last_question == Greatest({RFindPair(chunk, "?", " "), RFindPair(chunk, "?", "\n")})
        sentence == Greatest({last_period, last_exclaim, last_question})
    IN IF sentence # -1 THEN sentence
       ELSE IF RFind(chunk, " ") # -1 THEN RFind(chunk, " ")
       ELSE RFind(chunk, "\n")

\* The position found in the window: of the last sentence ending, else of
\* the last newline, else of the last space, else -1.
Boundary(chunk) ==
    LET last_period == Greatest({RFindPair(chunk, ".", " "), RFindPair(chunk, ".", "\n")})
        last_exclaim == Greatest({RFindPair(chunk, "!", " "), RFindPair(chunk, "!", "\n")})
        last_question == Greatest({RFindPair(chunk, "?", " "), RFindPair(chunk, "?", "\n")})
        sentence == Greatest({last_period, last_exclaim, last_question})
    IN IF sentence # -1 THEN sentence
       ELSE IF RFind(chunk, "\n") # -1 THEN RFind(chunk, "\n")
       ELSE RFind(chunk, " ")

\* A cut made at the position found, not behind it.
SplitPos_AtBoundary(text, max_length) ==
    LET found == Boundary(SubSeq(text, 1, max_length))
    IN IF found = -1 THEN max_length - 1 ELSE found

\* split_pos for the text left.
SplitPos(text, max_length) ==
    CutAfter(Boundary(SubSeq(text, 1, max_length)), max_length)

\* smart_chunk(text, max_length) is called.
ChunkCall(text, max_length) ==
    /\ chunking = NoChunking
    /\ chunking' =
           IF Len(text) <= max_length
           THEN [text |-> text, max_length |-> max_length, pc |-> "done",
                 rest |-> <<>>, chunks |-> <<text>>, split_pos |-> -1]
           ELSE [text |-> text, max_length |-> max_length, pc |-> "loop",
                 rest |-> text, chunks |-> <<>>, split_pos |-> -1]
    /\ UNCHANGED <<streakVars, sessionVars, tipVars, parseVars, scheduler, weekly, gateVars>>

\* A turn that goes on one character behind the cut.
ChunkStep_DropsCutCharacter ==
    /\ chunking # NoChunking
    /\ chunking.pc = "loop"
    /\ chunking' =
           IF chunking.rest = <<>>
           THEN [chunking EXCEPT !.pc = "done", !.split_pos = -1]
           ELSE IF Len(chunking.rest) <= chunking.max_length
           THEN [chunking EXCEPT !.pc = "done", !.split_pos = -1, !.rest = <<>>,
                                 !.chunks = Append(@, chunking.rest)]
           ELSE LET split_pos == SplitPos(chunking.rest, chunking.max_length)
                IN [chunking EXCEPT
                       !.split_pos = split_pos,
                       !.chunks = Append(@, Strip(SubSeq(chunking.rest, 1, split_pos))),
                       !.rest = Strip(SubSeq(chunking.rest, split_pos + 2,
                                             Len(chunking.rest)))]
    /\ UNCHANGED <<streakVars, sessionVars, tipVars, parseVars, scheduler, weekly, gateVars>>

\* One turn of "while text:".
ChunkStep ==
    /\ chunking # NoChunking
    /\ chunking.pc = "loop"
    /\ chunking' =
           IF chunking.rest = <<>>
           THEN [chunking EXCEPT !.pc = "done", !.split_pos = -1]
           ELSE IF Len(chunking.rest) <= chunking.max_length
           THEN [chunking EXCEPT !.pc = "done", !.split_pos = -1, !.rest = <<>>,
                                 !.chunks = Append(@, chunking.rest)]
           ELSE LET split_pos == SplitPos(chunking.rest, chunking.max_length)
                IN [chunking EXCEPT
                       !.split_pos = split_pos,
                       !.chunks = Append(@, Strip(SubSeq(chunking.rest, 1, split_pos))),
                       !.rest = Strip(SubSeq(chunking.rest, split_pos + 1,
                                             Len(chunking.rest)))]
    /\ UNCHANGED <<streakVars, sessionVars, tipVars, parseVars, scheduler, weekly, gateVars>>

NextChunk ==
    \/ /\ chunking = NoChunking
       /\ \E text \in Texts, max_length \in MaxLengths : ChunkCall(text, max_length)
    \/ ChunkStep

SpecChunk == Init /\ [][NextChunk]_vars

RECURSIVE TotalLength(_)
\* The number of characters in a sequence of chunks.
TotalLength(chunks) ==
    IF chunks = <<>> THEN 0 ELSE Len(Head(chunks)) + TotalLength(Tail(chunks))

\* The number of characters of a text that are no whitespace.
Inked(text) == Cardinality({i \in 1..Len(text) : text[i] \notin Whitespace})

\* Every chunk made so far is at most max_length long.
ChunksFit ==
    \A i \in 1..Len(chunking.chunks) :
        Len(chunking.chunks[i]) <= chunking.max_length

StatedCut(window) ==
    LET ends == {i \in 1..(Len(window) - 1) :
                     window[i] \in {".", "!", "?"} /\ window[i + 1] \in {" ", "\n"}}
        newlines == {i \in 1..Len(window) : window[i] = "\n"}
        spaces == {i \in 1..Len(window) : window[i] = " "}
    IN IF ends # {} THEN Greatest(ends)
       ELSE IF newlines # {} THEN Greatest(newlines)
       ELSE IF spaces # {} THEN Greatest(spaces)
       ELSE 0

WeekWindow == 7

MaxLogs == 3

WeekDays == {0, 1, WeekWindow, WeekWindow + 1}

\* The workouts logged: <<workout_minutes, goal>>.
LoggedWorkouts == {<<20, "Muscle Gain">>, <<45, "Weight Loss">>}

\* What get_weekly_progress returns for no data: None.
NoProgress == [none |-> TRUE]

\* Midnight passes, and the days up to the next day of WeekDays with it.
WeekClock ==
    /\ \E d \in WeekDays : d > today
    /\ today' = Least({d \in WeekDays : d > today})
    /\ weekly' = NoWeekly
    /\ UNCHANGED <<workout_streaks, lastCall, calledDays, callers>>
    /\ UNCHANGED <<sessionVars, tipVars, parseVars, scheduler, chunking, gateVars>>

\* log_workout_completion(phone_number, workout_minutes, calories_burned,
\* progress_percent, goal): date_completed is CURRENT_TIMESTAMP.
log_workout_completion(phone, minutes, goal) ==
    /\ Len(workout_logs) < MaxLogs
    /\ workout_logs' = Append(workout_logs,
           [phone_number |-> phone, workout_minutes |-> minutes,
            calories_burned |-> 5 * minutes, goal |-> goal,
            date_completed |-> today])
    /\ weekly' = NoWeekly
    /\ UNCHANGED <<heap, user_sessions, handlers, threads, inbound, jobs, lastEnded,
                   lastReply>>
    /\ UNCHANGED <<streakVars, tipVars, parseVars, scheduler, chunking, gateVars>>

RECURSIVE SumOver(_, _, _)
\* SUM(column) over the rows selected.
SumOver(logs, rows, column) ==
    IF rows = {} THEN 0
    ELSE LET i == Least(rows)
         IN logs[i][column] + SumOver(logs, rows \ {i}, column)

\* A WHERE clause that forgets the user.
Selected_AnyUser(logs, phone, now) ==
    {i \in DOMAIN logs : logs[i].date_completed >= now - WeekWindow}

\* WHERE phone_number = ? AND date_completed >= datetime('now', '-7 days')
Selected(logs, phone, now) ==
    {i \in DOMAIN logs :
         /\ logs[i].phone_number = phone
         /\ logs[i].date_completed >= now - WeekWindow}

\* get_weekly_progress(phone_number); goal_row: the row the bare column
\* goal of the aggregate query is taken from, any of the rows selected.
get_weekly_progress(phone, goal_row) ==
    LET rows == Selected(workout_logs, phone, today)
        workouts_completed == Cardinality(rows)
    IN /\ goal_row \in rows \/ (rows = {} /\ goal_row = 0)
       /\ weekly' =
              [phone_number |-> phone, now |-> today,
               result |->
                   IF workouts_completed > 0
                   THEN [workouts_completed |-> workouts_completed,
                         total_minutes |-> SumOver(workout_logs, rows, "workout_minutes"),
                         total_calories |-> SumOver(workout_logs, rows, "calories_burned"),
                         goal |-> workout_logs[goal_row].goal]
                   ELSE NoProgress]
       /\ UNCHANGED <<streakVars, sessionVars, tipVars, parseVars, scheduler, chunking, gateVars>>

NextWeekly ==
    \/ WeekClock
    \/ \E phone \in Users, w \in LoggedWorkouts :
           log_workout_completion(phone, w[1], w[2])
    \/ \E phone \in Users, goal_row \in 0..MaxLogs : get_weekly_progress(phone, goal_row)

SpecWeekly == Init /\ [][NextWeekly]_vars

\* The rows of the user answered for that were completed within the seven
\* days before the answer.
RecentRows ==
    {i \in 1..Len(workout_logs) :
         /\ workout_logs[i].phone_number = weekly.phone_number
         /\ weekly.now - workout_logs[i].date_completed <= 7}

RECURSIVE MinutesOf(_)
MinutesOf(rows) ==
    IF rows = {} THEN 0
    ELSE LET i == CHOOSE r \in rows : TRUE
         IN workout_logs[i].workout_minutes + MinutesOf(rows \ {i})

RECURSIVE CaloriesOf(_)
CaloriesOf(rows) ==
    IF rows = {} THEN 0
    ELSE LET i == CHOOSE r \in rows : TRUE
         IN workout_logs[i].calories_burned + CaloriesOf(rows \ {i})

\* C29: get_weekly_progress(user) answers with no data exactly when the user
\* has no workout log row completed within the last 7 days; otherwise its
\* workouts_completed is the number of those rows and its totals are their
\* sums; it never answers with a record of 0 workouts.
C29_WeeklyProgressCountsRecentRows ==
    weekly # NoWeekly
        => /\ (weekly.result = NoProgress) <=> (RecentRows = {})
           /\ weekly.result # NoProgress
                  => /\ weekly.result.workouts_completed = Cardinality(RecentRows)
                     /\ weekly.result.workouts_completed > 0
                     /\ weekly.result.total_minutes = MinutesOf(RecentRows)
                     /\ weekly.result.total_calories = CaloriesOf(RecentRows)

\* A user with three rows, one of them older than seven days, is answered
\* with the two recent ones.
C29_Witness ==
    /\ weekly # NoWeekly
    /\ weekly.result # NoProgress
    /\ weekly.result.workouts_completed = 2
    /\ Cardinality({i \in 1..Len(workout_logs) :
                        workout_logs[i].phone_number = weekly.phone_number}) = 3
    /\ weekly.result.total_minutes = 65

(***************************************************************************)
(* whatsapp_webhook from its first line: the ADMIN test and the            *)
(* authorization test that come before the session is looked up.           *)
(***************************************************************************)
AdminBodies == {"ADMIN HELP", "admin help", "ADMIN FOO"}

\* incoming_msg.upper().strip().startswith("ADMIN")
StartsWithAdmin(body) == body \in {"ADMIN HELP", "admin help", "ADMIN FOO"}

\* handle_admin_command for a sender that is an admin: the text of the
\* command's answer, None for a command that none of its tests knows.
handle_admin_command(body) ==
    CASE body \in {"ADMIN HELP", "admin help"} -> "admin_help"
      [] OTHER -> PyNone

\* str(MessagingResponse()): a response that carries no message.
EmptyResponse(u) == Response(u, "")

\* A request arrives at the webhook.
ReceiveWebhook(h, u, body) ==
    /\ inbound < MaxInbound
    /\ FreeSlot(h)
    /\ handlers' = [handlers EXCEPT ![h] =
                        [pc |-> "admin_test", user |-> u, body |-> body, session |-> 0]]
    /\ inbound' = inbound + 1
    /\ UNCHANGED <<heap, user_sessions, threads, workout_logs, jobs, lastEnded, lastReply>>
    /\ UNCHANGED <<streakVars, tipVars, parseVars, auxVars>>

\* "INSERT INTO auth_logs (phone_number, action, success)"
log_auth_attempt(logs, phone_number, action, success) ==
    Append(logs, [phone_number |-> phone_number, action |-> action,
                  success |-> IF success THEN 1 ELSE 0])

\* STEP 1: an ADMIN command is handled before any authorization test;
\* admin is what is_admin(sender) reads from the admin_users table.
AdminTest(h, admin) ==
    /\ handlers[h].pc = "admin_test"
    /\ handlers' = [handlers EXCEPT ![h].pc =
                        IF StartsWithAdmin(handlers[h].body)
                        THEN IF admin THEN "admin_command" ELSE "not_admin"
                        ELSE "authorize"]
    /\ UNCHANGED <<heap, user_sessions, threads, inbound, workout_logs, jobs, lastEnded,
                   lastReply>>
    /\ UNCHANGED <<streakVars, tipVars, parseVars, auxVars>>

\* The command of an admin: its answer is the reply, and a command with no
\* answer gets a response without a message and no audit entry.
AdminCommand(h) ==
    /\ handlers[h].pc = "admin_command"
    /\ LET admin_response == handle_admin_command(handlers[h].body)
       IN IF admin_response # PyNone
          THEN /\ lastReply' = Response(handlers[h].user, admin_response)
               /\ auth_logs' = log_auth_attempt(auth_logs, handlers[h].user,
                                                "admin_command_success", TRUE)
          ELSE /\ lastReply' = EmptyResponse(handlers[h].user)
               /\ UNCHANGED auth_logs
    /\ handlers' = [handlers EXCEPT ![h] = IdleHandler]
    /\ UNCHANGED <<heap, user_sessions, threads, inbound, workout_logs, jobs, lastEnded>>
    /\ UNCHANGED <<streakVars, tipVars, parseVars, scheduler, chunking, weekly>>
    /\ UNCHANGED <<goal_check, authorized_users, broadcast>>

\* An ADMIN command of a sender that is no admin, with no audit entry.
RejectAdmin_Unlogged(h) ==
    /\ handlers[h].pc = "not_admin"
    /\ lastReply' = Response(handlers[h].user, "no_admin_privileges")
    /\ handlers' = [handlers EXCEPT ![h] = IdleHandler]
    /\ UNCHANGED <<heap, user_sessions, threads, inbound, workout_logs, jobs, lastEnded>>
    /\ UNCHANGED <<streakVars, tipVars, parseVars, auxVars>>

\* An ADMIN command of a sender that is no admin.
RejectAdmin(h) ==
    /\ handlers[h].pc = "not_admin"
    /\ lastReply' = Response(handlers[h].user, "no_admin_privileges")
    /\ auth_logs' = log_auth_attempt(auth_logs, handlers[h].user,
                                     "admin_command_rejected", FALSE)
    /\ handlers' = [handlers EXCEPT ![h] = IdleHandler]
    /\ UNCHANGED <<heap, user_sessions, threads, inbound, workout_logs, jobs, lastEnded>>
    /\ UNCHANGED <<streakVars, tipVars, parseVars, scheduler, chunking, weekly>>
    /\ UNCHANGED <<goal_check, authorized_users, broadcast>>

\* STEP 2: authorized is what is_user_authorized(sender) reads from the
\* authorized_users table; an authorized access is logged.
Authorize(h, authorized) ==
    /\ handlers[h].pc = "authorize"
    /\ IF authorized
       THEN /\ handlers' = [handlers EXCEPT ![h].pc = "lookup"]
            /\ auth_logs' = log_auth_attempt(auth_logs, handlers[h].user,
                                             "authorized_access", TRUE)
       ELSE /\ handlers' = [handlers EXCEPT ![h].pc = "denied"]
            /\ UNCHANGED auth_logs
    /\ UNCHANGED <<heap, user_sessions, threads, inbound, workout_logs, jobs, lastEnded,
                   lastReply>>
    /\ UNCHANGED <<streakVars, tipVars, parseVars, scheduler, chunking, weekly>>
    /\ UNCHANGED <<goal_check, authorized_users, broadcast>>

\* A sender that is not authorized: the audit entry, then the denial.
Deny(h) ==
    /\ handlers[h].pc = "denied"
    /\ auth_logs' = log_auth_attempt(auth_logs, handlers[h].user,
                                     "unauthorized_access", FALSE)
    /\ lastReply' = Response(handlers[h].user, "not_authorized")
    /\ handlers' = [handlers EXCEPT ![h] = IdleHandler]
    /\ UNCHANGED <<heap, user_sessions, threads, inbound, workout_logs, jobs, lastEnded>>
    /\ UNCHANGED <<streakVars, tipVars, parseVars, scheduler, chunking, weekly>>
    /\ UNCHANGED <<goal_check, authorized_users, broadcast>>

\* The bodies a sender sends to the webhook.
WebhookBodiesFor(u) ==
    AdminBodies \cup
        (IF user_sessions[u] # 0 /\ heap[user_sessions[u]].onboarding_step = "done"
         THEN ChatBodies ELSE {"No"})

NextWebhook ==
    \/ /\ Quiescent
       /\ \E h \in Slots, u \in Senders :
              \E body \in WebhookBodiesFor(u) : ReceiveWebhook(h, u, body)
    \/ \E h \in Slots, admin \in BOOLEAN : AdminTest(h, admin)
    \/ \E h \in Slots : AdminCommand(h)
    \/ \E h \in Slots : RejectAdmin(h)
    \/ \E h \in Slots, authorized \in BOOLEAN : Authorize(h, authorized)
    \/ \E h \in Slots : Deny(h)
    \/ \E h \in Slots : Lookup(h)
    \/ \E h \in Slots : CreateSession(h)
    \/ \E h \in Slots : StepTest(h)
    \/ \E h \in Slots : HandleBasic(h)
    \/ \E h \in Slots : HandleRestrictions(h)
    \/ \E h \in Slots : HandlePersonalize(h)
    \/ \E h \in Slots : HandleStreakQuery(h)
    \/ \E h \in Slots, stored \in BOOLEAN : HandleTipPreference(h, stored)
    \/ \E h \in Slots, now \in ChatNows : HandleRemind(h, now)
    \/ \E h \in Slots : HandleWeeklyPlan(h)
    \/ \E h \in Slots : HandleTodayPlan(h)
    \/ \E h \in Slots : HandleOffTopic(h)
    \/ \E h \in Slots : HandleFreeForm(h)
    \/ \E t \in Threads : ThreadStart(t)
    \/ \E t \in Threads, r \in Replies : BackendReplies(t, r)
    \/ \E t \in Threads : BackendRaises(t)
    \/ \E t \in Threads, db_up \in BOOLEAN : PostProcess(t, db_up)
    \/ \E t \in Threads : SendPart(t)
    \/ \E t \in Threads : SendPartRaises(t)
    \/ \E t \in Threads, accepted \in BOOLEAN : HandleException(t, accepted)

SpecWebhook == Init /\ [][NextWebhook]_vars

\* C30: every inbound message handled by whatsapp_webhook, on every path
\* (admin command known or unknown, denied sender, session creation, each
\* onboarding step, each conversation branch), is answered with a response
\* to the sender that carries a text; no path returns an empty response.
C30_EveryPathReplies ==
    [][\A h \in Slots :
           Returns(h) => /\ lastReply' # NoResponse
                         /\ lastReply' # EmptyResponse(handlers[h].user)
                         /\ lastReply'.to = handlers[h].user]_vars

\* The rows of the tip preference table of the users other than u.
OtherPreferences(table, u) == {r \in table : r.phone_number # u}

\* C31: in a finished session a message handled by the tip opt-out or
\* opt-in branch, the streak query, the reminder branch or the out-of-domain
\* branch starts no generation and leaves the history, the step and the
\* profile unchanged; the tip branches change only the sender's tip
\* preference, the streak query changes nothing, and the reminder branch
\* changes only the session's reminders and the scheduled jobs.
C31_CommandBranchesFrame ==
    [][\A h \in Slots :
           /\ (\E pc \in {"tips_off", "tips_on", "streak", "remind", "offtopic"} :
                   ReturnsFrom(h, pc))
                  => /\ threads' = threads
                     /\ OnlyChanges(h, {"reminders"})
                     /\ heap'[handlers[h].session].onboarding_step = "done"
                     /\ user_sessions' = user_sessions
                     /\ workout_logs' = workout_logs
                     /\ workout_streaks' = workout_streaks
           /\ (ReturnsFrom(h, "tips_off") \/ ReturnsFrom(h, "tips_on"))
                  => /\ heap' = heap /\ jobs' = jobs
                     /\ OtherPreferences(user_tip_preferences', handlers[h].user)
                            = OtherPreferences(user_tip_preferences, handlers[h].user)
           /\ (ReturnsFrom(h, "streak") \/ ReturnsFrom(h, "offtopic"))
                  => /\ heap' = heap /\ jobs' = jobs
                     /\ user_tip_preferences' = user_tip_preferences
           /\ ReturnsFrom(h, "remind")
                  => user_tip_preferences' = user_tip_preferences]_vars

\* A reminder was set in a finished session: one job, one pending reminder,
\* and the history is the one the plan generation left.
C31_Witness ==
    /\ lastReply # NoResponse
    /\ lastReply.kind = "reminder_set"
    /\ Len(jobs) = 1
    /\ threads = <<>>
    /\ \E u \in Senders :
           /\ user_sessions[u] # 0
           /\ heap[user_sessions[u]].onboarding_step = "done"
           /\ Len(heap[user_sessions[u]].reminders) = 1

StatedRelevant(body) ==
    \/ WordsIn(Lower(body)) \cap FitnessKeywords # {}
    \/ WordCount(body) <= 5
    \/ QuestionWordsIn(Lower(body)) # {}

\* C33: a message that reaches the domain-relevance filter proceeds to
\* generation if it holds a fitness keyword, or has at most 5 words, or
\* starts with or contains a question word; only a message with none of the
\* three gets the out-of-domain notice, and the notice starts no generation.
C33_FilterPassesKeywordShortOrQuestion ==
    [][\A h \in Slots :
           /\ (handlers[h].pc = "is_done" /\ handlers'[h].pc \in {"offtopic", "freeform"})
                  => (handlers'[h].pc = "freeform" <=> StatedRelevant(handlers[h].body))
           /\ ReturnsFrom(h, "offtopic") => threads' = threads]_vars

\* The messages of the session stored for user u in a state given by its
\* session table and heap (<<>> while the user has no session).
HistoryIn(sessions, objects, u) ==
    IF sessions[u] = 0 THEN <<>> ELSE objects[sessions[u]].messages

IsPrefix(a, b) == Len(a) <= Len(b) /\ SubSeq(b, 1, Len(a)) = a

\* C34: a session's history is append-only under every interleaving of
\* requests and generations: the history of a user before a step is a prefix
\* of the history after it, and a session is never replaced by a new one
\* with an empty history.
C34_HistoryAppendOnly ==
    [][\A u \in Users :
           IsPrefix(HistoryIn(user_sessions, heap, u),
                    HistoryIn(user_sessions', heap', u))]_vars

\* The human messages of a history, in order.
Humans(messages) == SelectSeq(messages, LAMBDA m : m.role = "human")

\* The user message of the request that started run t.  A generating branch
\* appends its message and starts its run in one step, and the table of runs
\* keeps the order of their starts, so the runs of the user that still exist
\* were started by the user's last human messages, in the same order.
RequestOf(t) ==
    LET asked == Humans(heap[user_sessions[threads[t].user]].messages)
        later == Cardinality({r \in DOMAIN threads :
                                  r > t /\ threads[r].user = threads[t].user})
    IN asked[Len(asked) - later]

\* C35: the history a run of process_and_reply passes to the backend ends
\* with the user message of the request that started the run, and the reply
\* of the run is appended to the history directly after that message, also
\* when the user sends a second generating message before the first
\* generation has finished.
C35_ReplyFollowsItsRequest ==
    [][\A t \in DOMAIN threads :
           /\ (threads[t].pc = "spawned" /\ threads'[t].pc = "invoked")
                  => LET passed == threads'[t].start.messages
                     IN passed # <<>> /\ passed[Len(passed)] = RequestOf(t)
           /\ (threads[t].pc = "replied" /\ threads'[t].pc = "sending")
                  => LET history == heap[threads[t].session].messages
                     IN /\ history # <<>>
                        /\ history[Len(history)] = RequestOf(t)
                        /\ heap'[threads[t].session].messages
                               = Append(history, AIMessage(threads[t].reply.content))]_vars

\* The fields of a session that hold something the user sent.
SentFields ==
    {"name", "age", "gender", "weight", "height", "fitness_goal", "injury",
     "user_restrictions"}

\* C36: the message that creates a session is no onboarding input: after it
\* the session is at "basic" with every profile field unset, an empty
\* history and no reminders, the only reply is the greeting, no generation
\* and no job is started, and the body of the message is in no field.
C36_CreatingMessageIsNotInput ==
    [][\A h \in Slots :
           ReturnsFrom(h, "create")
               => LET u == handlers[h].user
                      created == heap'[user_sessions'[u]]
                  IN /\ user_sessions'[u] # 0
                     /\ created.onboarding_step = "basic"
                     /\ \A f \in SentFields :
                            created[f] = PyNone /\ created[f] # handlers[h].body
                     /\ created.messages = <<>>
                     /\ created.reminders = <<>>
                     /\ lastReply' = Response(u, "greeting")
                     /\ threads' = threads /\ jobs' = jobs
                     /\ \A s \in DOMAIN heap : heap'[s] = heap[s]]_vars

\* The first message of a sender was handled: the sender has a session at
\* "basic" and was greeted.
C36_Witness ==
    /\ inbound = 1
    /\ \A h \in Slots : handlers[h].pc = "idle"
    /\ lastReply # NoResponse
    /\ lastReply.kind = "greeting"
    /\ \E u \in Senders :
           /\ user_sessions[u] # 0
           /\ heap[user_sessions[u]].onboarding_step = "basic"
           /\ heap[user_sessions[u]].name = PyNone

\* A text without the whitespace it begins with.
LStrip(text) ==
    LET kept == {i \in 1..Len(text) : text[i] \notin Whitespace}
    IN IF kept = {} THEN <<>> ELSE SubSeq(text, Least(kept), Len(text))

RECURSIVE Rebuilds(_, _)
\* The text is the chunks in order with nothing but whitespace before,
\* between and behind them.
Rebuilds(text, chunks) ==
    IF chunks = <<>> THEN LStrip(text) = <<>>
    ELSE LET left == LStrip(text)
             chunk == Head(chunks)
         IN /\ IsPrefix(chunk, left)
            /\ Rebuilds(SubSeq(left, Len(chunk) + 1, Len(left)), Tail(chunks))

\* The chunks returned rebuild the text given: as they are when the text
\* came back whole, else up to whitespace at the cuts.
NothingLost ==
    \/ chunking.chunks = <<chunking.text>>
    \/ /\ Rebuilds(chunking.text, chunking.chunks)
       /\ \A i \in 1..Len(chunking.chunks) :
              chunking.chunks[i] = Strip(chunking.chunks[i])

C38_LoopShortensText ==
    [][(chunking # NoChunking /\ chunking.pc = "loop")
           => /\ chunking.max_length >= 2
              /\ chunking' # NoChunking
              /\ IF chunking.rest = <<>>
                 THEN chunking'.pc = "done" /\ chunking'.chunks = chunking.chunks
                 ELSE /\ Len(chunking'.chunks) = Len(chunking.chunks) + 1
                      /\ Len(chunking'.rest) < Len(chunking.rest)
                      /\ Len(chunking'.chunks) + Len(chunking'.rest)
                             <= Len(chunking.text)]_vars

\* A text of the greatest length came back after as many turns as it can
\* take with one character taken off per turn past the first.
C38_Witness ==
    /\ chunking # NoChunking
    /\ chunking.pc = "done"
    /\ chunking.max_length = 2
    /\ Len(chunking.text) = MaxTextLen
    /\ Len(chunking.chunks) = MaxTextLen - 1

(***************************************************************************)
(* weekly_goal_check: the thread that once a day goes through              *)
(* user_sessions.items(), beside the requests that create the sessions.    *)
(* Times are day numbers; the clock is read on the days of GoalDays.       *)
(***************************************************************************)
GoalWeek == 7

GoalDays == {0, 1, GoalWeek, GoalWeek + 1}

\* The senders that have a session.
Keys(sessions) == {u \in Users : sessions[u] # 0}

RECURSIVE InOrder(_, _)
\* The keys of user_sessions in the order of their insertion.
InOrder(sessions, keys) ==
    IF keys = {} THEN <<>>
    ELSE LET first == CHOOSE u \in keys : \A v \in keys : sessions[u] <= sessions[v]
         IN <<first>> \o InOrder(sessions, keys \ {first})

\* Midnight passes, and the days up to the next day of GoalDays with it.
GoalClock ==
    /\ \E d \in GoalDays : d > today
    /\ today' = Least({d \in GoalDays : d > today})
    /\ UNCHANGED <<workout_streaks, lastCall, calledDays, callers>>
    /\ UNCHANGED <<sessionVars, tipVars, parseVars, scheduler, chunking, weekly>>
    /\ UNCHANGED <<auth_logs, goal_check, authorized_users, broadcast>>

\* "threading.Event().wait(86400)" is over: "now = datetime.now()" and the
\* iterator of "for phone, data in user_sessions.items()" is made, which
\* notes the size of the dictionary.
GoalPassStart ==
    /\ goal_check.pc = "waiting"
    /\ goal_check.now < today
    /\ goal_check' = [pc |-> "iterating", now |-> today,
                      size |-> Cardinality(Keys(user_sessions)),
                      todo |-> InOrder(user_sessions, Keys(user_sessions)),
                      last |-> [none |-> TRUE]]
    /\ UNCHANGED <<streakVars, sessionVars, tipVars, parseVars, scheduler, chunking, weekly>>
    /\ UNCHANGED <<auth_logs, authorized_users, broadcast>>

\* "last_check and (now - last_check).days >= 7"
GoalDue(now, last_check) == now - last_check >= GoalWeek

\* The for statement asks the iterator for the next item, and the body runs
\* for it.  The iterator raises RuntimeError when the dictionary has changed
\* its size since the iterator was made; the for statement is outside the
\* try, so the error leaves "while True" and the thread ends.  delivered:
\* client.messages.create returns (it raises otherwise, into the except).
GoalPassTurn(delivered) ==
    /\ goal_check.pc = "iterating"
    /\ IF Cardinality(Keys(user_sessions)) # goal_check.size
       THEN /\ goal_check' = [goal_check EXCEPT !.pc = "dead"]
            /\ UNCHANGED heap
       ELSE IF goal_check.todo = <<>>
       THEN /\ goal_check' = [goal_check EXCEPT !.pc = "waiting"]
            /\ UNCHANGED heap
       ELSE LET phone == Head(goal_check.todo)
                data == user_sessions[phone]
                due == GoalDue(goal_check.now, heap[data].last_goal_check)
            IN /\ (~due => delivered)
               /\ goal_check' = [goal_check EXCEPT
                                     !.todo = Tail(@),
                                     !.last = [phone |-> phone, due |-> due,
                                               delivered |-> due /\ delivered]]
               /\ heap' = IF due /\ delivered
                          THEN [heap EXCEPT ![data].last_goal_check = goal_check.now]
                          ELSE heap
    /\ UNCHANGED <<user_sessions, handlers, threads, inbound, workout_logs, jobs,
                   lastEnded, lastReply>>
    /\ UNCHANGED <<streakVars, tipVars, parseVars, scheduler, chunking, weekly>>
    /\ UNCHANGED <<auth_logs, authorized_users, broadcast>>

\* The requests beside the thread: the first message of each sender, one
\* request at a time.
NextGoal ==
    \/ GoalClock
    \/ GoalPassStart
    \/ \E delivered \in BOOLEAN : GoalPassTurn(delivered)
    \/ /\ Quiescent
       /\ \E h \in Slots, u \in Users : user_sessions[u] = 0 /\ Receive(h, u, "No")
    \/ \E h \in Slots : Lookup(h)
    \/ \E h \in Slots : CreateSession(h)

SpecGoal == Init /\ [][NextGoal]_vars

\* C39: the weekly goal check keeps running: at every pass each session
\* whose last_goal_check is 7 days old or older is sent the prompt and gets
\* last_goal_check set to the time of the pass, unless the send fails, which
\* leaves it as it was; a failure for one session does not keep the pass
\* from the sessions after it; and a session created by a request while a
\* pass is going through the sessions does not stop the loop.
C39_GoalCheckKeepsRunning ==
    [][/\ goal_check'.pc # "dead"
       /\ (goal_check.pc = "iterating" /\ goal_check.todo # <<>>
               /\ goal_check' # goal_check)
              => LET phone == Head(goal_check.todo)
                     before == heap[user_sessions[phone]].last_goal_check
                     after == heap'[user_sessions[phone]].last_goal_check
                     old == goal_check.now - before >= 7
                 IN /\ goal_check'.todo = Tail(goal_check.todo)
                    /\ goal_check'.last.due = old
                    /\ after = IF old /\ goal_check'.last.delivered
                               THEN goal_check.now ELSE before]_vars

(***************************************************************************)
(* The broadcast jobs (daily tips, weekly reports) over the                *)
(* authorized_users table, beside the admin commands and the job that      *)
(* change it.  Times are day numbers.                                      *)
(***************************************************************************)
MaxBroadcastDay == 2

\* expiry_date of a user added without expiry_days: NULL.
NoExpiry == -1

\* The expiry_days given to ADMIN ADD (0: none given).
ExpiryDays == {0, 1}

\* The order in which the queries return their rows in the model.
UserOrder == <<"u1", "u2">>

\* A day passes.
BroadcastClock ==
    /\ today < MaxBroadcastDay
    /\ today' = today + 1
    /\ UNCHANGED <<workout_streaks, lastCall, calledDays, callers>>
    /\ UNCHANGED <<sessionVars, tipVars, parseVars, scheduler, chunking, weekly>>
    /\ UNCHANGED <<auth_logs, goal_check, authorized_users, broadcast>>

\* add_user(phone_number, name, expiry_days): the row with authorized = 1
\* (the column default) and the tip preference 1, in one transaction; a row
\* that exists already in either table raises IntegrityError and nothing is
\* stored.
add_user(phone, expiry_days) ==
    /\ authorized_users[phone] = NoUserRow
    /\ \A r \in user_tip_preferences : r.phone_number # phone
    /\ authorized_users' =
           [authorized_users EXCEPT ![phone] =
                [authorized |-> 1,
                 expiry_date |-> IF expiry_days = 0 THEN NoExpiry
                                 ELSE today + expiry_days]]
    /\ user_tip_preferences' = SetPreference(user_tip_preferences, phone, TRUE)
    /\ UNCHANGED <<mental_health_tips, user_tip_history, lastTipOp>>
    /\ UNCHANGED <<streakVars, sessionVars, parseVars, scheduler, chunking, weekly>>
    /\ UNCHANGED <<auth_logs, goal_check, broadcast>>

\* remove_user (authorized = 0) and reactivate_user (authorized = 1).
SetAuthorized(phone, authorized) ==
    /\ authorized_users[phone] # NoUserRow
    /\ authorized_users[phone].authorized # authorized
    /\ authorized_users' = [authorized_users EXCEPT ![phone].authorized = authorized]
    /\ UNCHANGED <<streakVars, sessionVars, tipVars, parseVars, scheduler, chunking, weekly>>
    /\ UNCHANGED <<auth_logs, goal_check, broadcast>>

\* clean_expired_users, the job of every day: authorized = 0 for the rows
\* whose expiry_date is before now.
clean_expired_users ==
    /\ authorized_users' =
           [u \in Users |->
                IF /\ authorized_users[u] # NoUserRow
                   /\ authorized_users[u].expiry_date # NoExpiry
                   /\ authorized_users[u].expiry_date < today
                   /\ authorized_users[u].authorized = 1
                THEN [authorized_users[u] EXCEPT !.authorized = 0]
                ELSE authorized_users[u]]
    /\ authorized_users' # authorized_users
    /\ UNCHANGED <<streakVars, sessionVars, tipVars, parseVars, scheduler, chunking, weekly>>
    /\ UNCHANGED <<auth_logs, goal_check, broadcast>>

\* The tip opt-out and opt-in of a user whose messages pass the webhook's
\* authorization test.
SetTipPreference(phone, receive_tips) ==
    /\ authorized_users[phone] # NoUserRow
    /\ authorized_users[phone].authorized = 1
    /\ user_tip_preferences' = SetPreference(user_tip_preferences, phone, receive_tips)
    /\ user_tip_preferences' # user_tip_preferences
    /\ UNCHANGED <<mental_health_tips, user_tip_history, lastTipOp>>
    /\ UNCHANGED <<streakVars, sessionVars, parseVars, auxVars>>

\* get_users_for_weekly_report: "WHERE authorized = 1".
get_users_for_weekly_report(table) ==
    {u \in Users : table[u] # NoUserRow /\ table[u].authorized = 1}

\* get_users_for_daily_tips over the table: "WHERE au.authorized = 1 AND
\* (utp.receive_tips IS NULL OR utp.receive_tips = 1)".
UsersForDailyTips(table, preferences) ==
    {u \in Users : /\ table[u] # NoUserRow
                   /\ table[u].authorized = 1
                   /\ \A r \in preferences : r.phone_number = u => r.receive_tips = 1}

\* A broadcast job starts: it fetches its users, once.
BroadcastStart(kind) ==
    /\ broadcast.todo = <<>>
    /\ LET users == IF kind = "tips"
                    THEN UsersForDailyTips(authorized_users, user_tip_preferences)
                    ELSE get_users_for_weekly_report(authorized_users)
       IN broadcast' = [kind |-> kind,
                        todo |-> SelectSeq(UserOrder, LAMBDA u : u \in users),
                        last |-> [none |-> TRUE]]
    /\ UNCHANGED <<streakVars, sessionVars, tipVars, parseVars, scheduler, chunking, weekly>>
    /\ UNCHANGED <<auth_logs, goal_check, authorized_users>>

\* A turn of "for user in users": the message is made and sent; delivered:
\* nothing in the try raised (it is caught and counted otherwise).
BroadcastTurn(delivered) ==
    /\ broadcast.todo # <<>>
    /\ broadcast' = [broadcast EXCEPT
                         !.todo = Tail(@),
                         !.last = [user |-> Head(broadcast.todo),
                                   delivered |-> delivered]]
    /\ UNCHANGED <<streakVars, sessionVars, tipVars, parseVars, scheduler, chunking, weekly>>
    /\ UNCHANGED <<auth_logs, goal_check, authorized_users>>

NextBroadcast ==
    \/ BroadcastClock
    \/ \E phone \in Users, expiry_days \in ExpiryDays : add_user(phone, expiry_days)
    \/ \E phone \in Users, authorized \in {0, 1} : SetAuthorized(phone, authorized)
    \/ clean_expired_users
    \/ \E phone \in Users, receive_tips \in BOOLEAN : SetTipPreference(phone, receive_tips)
    \/ \E kind \in {"tips", "reports"} : BroadcastStart(kind)
    \/ \E delivered \in BOOLEAN : BroadcastTurn(delivered)

SpecBroadcast == Init /\ [][NextBroadcast]_vars

\* The user is authorized as stated: the flag is set and the expiry date has
\* not passed.
StatedAuthorized(u) ==
    /\ authorized_users[u] # NoUserRow
    /\ authorized_users[u].authorized = 1
    /\ authorized_users[u].expiry_date = NoExpiry
           \/ today <= authorized_users[u].expiry_date

\* The user's tip preference is enabled or was never set.
WantsTips(u) ==
    \A r \in user_tip_preferences : r.phone_number = u => r.receive_tips = 1

\* C40: the daily tips and the weekly report are sent only to users that are
\* authorized at the time of the send (flag set, expiry date not passed),
\* the tips only to users whose tip preference is enabled or not set, so a
\* user who opted out gets no tip until opting in; and a send that fails
\* does not keep the job from the users after it.
C40_BroadcastsOnlyToAuthorized ==
    [][(broadcast.todo # <<>> /\ broadcast' # broadcast)
           => LET u == Head(broadcast.todo)
              IN /\ broadcast'.todo = Tail(broadcast.todo)
                 /\ broadcast'.last.user = u
                 /\ broadcast'.last.delivered
                        => /\ StatedAuthorized(u)
                           /\ broadcast.kind = "tips" => WantsTips(u)]_vars

====
